---- MODULE Spec2Model ----
(***************************************************************************)
(* Platform control plane: the Guardrails manager                          *)
(* (mcp_server/core/guardrails.py), the domain resolver (core/resolver.py),*)
(* the audit logger (core/audit.py) and the operation gateway              *)
(* (tools/infrastructure.py) that composes them.  State: the loaded policy *)
(* document, the pending-confirmation table, the wall clock, the validate  *)
(* requests waiting on the event loop, the call that has just returned,    *)
(* the service catalog and provider defaults, the session's audit file,    *)
(* the alert tasks on the event loop, the provider adapters the control    *)
(* plane registered, and the gateway's invocations.                        *)
(*                                                                         *)
(* Python dicts are functions whose DOMAIN is the set of keys; d.get(k, v) *)
(* is Get(d, k, v).  Every coroutine of GuardrailsManager is free of await *)
(* points, so the event loop runs each body as one step and hands the      *)
(* result to the awaiting caller before it runs anything else.  A gateway  *)
(* coroutine is suspended only where it awaits a provider adapter.         *)
(***************************************************************************)
EXTENDS Integers, Sequences, FiniteSets, TLC

VARIABLES policies, pending_confirmations, now, calls, returned, history, nissued, nvalidates, ticks,
          domains, providers, audit_file, written_by, loop_running, tasks, invocations, ninvocations,
          registered

vars == <<policies, pending_confirmations, now, calls, returned, history, nissued, nvalidates, ticks,
          domains, providers, audit_file, written_by, loop_running, tasks, invocations, ninvocations,
          registered>>

\* DomainResolver's configuration snapshot
resolver_vars == <<domains, providers>>

\* the session's audit file, who wrote each of its lines, and the event loop's alert tasks
audit_vars == <<audit_file, written_by, loop_running, tasks>>

\* the gateway's invocations, and self.providers of the control plane: the adapter
\* class registered under each provider name
gateway_vars == <<invocations, ninvocations, registered>>

(* ---------------------------------------------------------------- bounds *)

\* number of tokens the checks issue in one run
MaxIssued == 2
\* number of validate_confirmation requests in one run
MaxValidates == 2
\* number of clock advances in one run
MaxTicks == 1
\* number of texts written to the session's audit file in one run
MaxLines == 3
\* number of gateway invocations in one run
MaxInvocations == 2

(* ------------------------------------------------------------- constants *)

\* timedelta(seconds=300)
ExpirySeconds == 300
\* guardrails.get('max_instances', {}).get('default', 100)
DefaultMaxInstances == 100
\* guardrails.get('min_instances', {}).get(environment, 1)
DefaultMinInstances == 1
\* token_config.get('length', 6)
DefaultTokenLength == 6

(* ------------------------------------------------------------ dictionaries *)

EmptyDict == [k \in {} |-> TRUE]

Get(d, k, default) == IF k \in DOMAIN d THEN d[k] ELSE default

\* del d[k]
Del(d, k) == [x \in DOMAIN d \ {k} |-> d[x]]

\* d[k] = v
Put(d, k, v) == [x \in DOMAIN d \cup {k} |-> IF x = k THEN v ELSE d[x]]

\* Python truthiness of the value stored under k (a missing key reads None)
Truthy(d, k) == k \in DOMAIN d /\ d[k] = TRUE

Range(s) == {s[i] : i \in DOMAIN s}

(* ------------------------------------------------------- policy documents *)

\* policies.yml is missing: _load_policies returns {}
NoPolicies == EmptyDict

\* a policies.yml in the layout of the sample that test_platform.py writes, with
\* word tokens, blackout windows and partial confirmation lists
ProductionPolicies ==
  [environments |->
     [dev     |-> [risk_level |-> "low", confirmations_required |-> FALSE,
                   confirmation_operations |-> <<"scale">>,
                   max_scale_size |-> 10],
      staging |-> [risk_level |-> "medium", confirmations_required |-> TRUE,
                   confirmation_operations |-> <<"restart">>,
                   deployment_restrictions |->
                     [blackout_windows |->
                        <<[start |-> [day |-> "Thursday", hour |-> 22],
                           end   |-> [day |-> "Friday", hour |-> 12]]>>]],
      prod    |-> [risk_level |-> "high", confirmations_required |-> TRUE,
                   confirmation_operations |-> <<"scale", "deploy">>,
                   max_scale_size |-> 50,
                   deployment_restrictions |->
                     [approval_required |-> TRUE,
                      blackout_windows |->
                        <<[start |-> [day |-> "Friday", hour |-> 18],
                           end   |-> [day |-> "Monday", hour |-> 6]]>>]]],
   guardrails |->
     [scaling |-> [min_instances |-> [default |-> 1, prod |-> 2],
                   max_instances |-> [default |-> 20, prod |-> 50]],
      security |-> [max_endpoints_isolate |-> 5]],
   confirmations |-> [token |-> [type |-> "word-based"]]]

PolicyDocs == {NoPolicies, ProductionPolicies}

\* a policies.yml whose environments ask for confirmations and name no verbs: dev has
\* no confirmation_operations key, staging has an empty list
ConfirmAllPolicies ==
  [environments |->
     [dev     |-> [risk_level |-> "low", confirmations_required |-> TRUE],
      staging |-> [risk_level |-> "medium", confirmations_required |-> TRUE,
                   confirmation_operations |-> <<>>],
      prod    |-> [risk_level |-> "high", confirmations_required |-> TRUE,
                   confirmation_operations |-> <<"scale">>,
                   max_scale_size |-> 50]]]

(* --------------------------------------------- catalog and provider defaults *)

\* Python's None, and the values that test false
None == "None"

Falsy(x) == x = None \/ x = ""

\* a domains.yml in the layout of the sample that test_platform.py writes: the
\* staging tier runs on a provider for which the gateway has no adapter, and only
\* the prod tier has a database
SampleDomains ==
  [galileo_notifications |->
     [dev     |-> [compute |-> [provider |-> "aws", kind |-> "ec2",
                                ref |-> "galileo-notify-dev", region |-> "us-east-1"]],
      staging |-> [compute |-> [provider |-> "azure", kind |-> "vmss",
                                ref |-> "galileo-notify-vmss",
                                resource_group |-> "rg-staging"]],
      prod    |-> [compute |-> [provider |-> "aws", kind |-> "asg",
                                ref |-> "galileo-notify-asg-prod", region |-> "us-east-1"],
                   database |-> [provider |-> "aws", kind |-> "rds",
                                 ref |-> "galileo-notify-db"]]]]

\* the providers.yml that test_platform.py writes, with a gcp section
SampleProviders ==
  [aws |-> [accounts |-> [dev |-> "123456789012", staging |-> "234567890123",
                          prod |-> "345678901234"],
            default_region |-> "us-east-1"],
   azure |-> [subscriptions |-> [staging |-> "staging-sub-id", prod |-> "prod-sub-id"],
              default_location |-> "eastus"],
   gcp |-> [projects |-> [prod |-> "prod-project"], default_region |-> "us-central1"],
   sentinelone |-> [api_url |-> "https://api.sentinelone.com"]]

\* the provider sections a providers.yml may hold
ProviderDocs == {SampleProviders, [aws |-> [default_region |-> "eu-west-1"]]}

\* the optional fields a catalog entry states itself
ExplicitFields ==
  {{}, {"region"}, {"account", "subscription", "project"},
   {"region", "account", "subscription", "project"}}

\* the value the catalog gives for an optional field
ExplicitValue(field) ==
  CASE field = "region" -> "ap-south-1" [] field = "account" -> "999999999999"
    [] field = "subscription" -> "own-sub-id" [] field = "project" -> "own-project"

\* the physical references of a catalog entry: ref, refs with one item, refs with
\* several
ReferenceShapes == {[ref |-> "vm-1"], [refs |-> <<"vm-1">>], [refs |-> <<"vm-1", "vm-2">>]}

CatalogProviders == {"aws", "azure", "gcp", "cisco"}

\* b written over a: {**a, **b}
Merge(a, b) == [k \in DOMAIN a \cup DOMAIN b |-> IF k \in DOMAIN b THEN b[k] ELSE a[k]]

\* the resource configurations a domains.yml may hold
ResourceConfigs ==
  {Merge(Merge([provider |-> p, kind |-> "vm"], shape), [f \in fields |-> ExplicitValue(f)]) :
     p \in CatalogProviders, shape \in ReferenceShapes, fields \in ExplicitFields}

\* the catalogs of one domain with one environment and one resource
OneResourceCatalogs ==
  {[galileo_notifications |-> [e \in {env} |-> [compute |-> config]]] :
     env \in {"dev", "prod"}, config \in ResourceConfigs}

\* the domains.yml files the resolver may load
Catalogs == OneResourceCatalogs \cup {SampleDomains}

ResourceTypes == {"compute", "database"}

\* the adapter class _init_providers constructs for a provider section
AdapterClasses ==
  [aws |-> "AWSProvider", azure |-> "AzureProvider",
   sentinelone |-> "SentinelOneProvider", cisco |-> "CiscoProvider"]

\* the operations the gateway asks of an adapter that the class defines: the Azure,
\* SentinelOne and Cisco classes define initialize, validate_credentials and
\* get_regions alone
AdapterMethods(class) ==
  IF class = "AWSProvider"
    THEN {"get_status", "scale", "restart", "deploy", "get_db_status"}
    ELSE {}

\* PlatformControlPlane._init_providers: asyncio.create_task(adapter.initialize())
\* comes before self.providers[name] = adapter, and with no running loop it raises
\* RuntimeError, which the except clause logs: the adapter is not registered
_init_providers(provider_config, in_loop) ==
  IF in_loop
    THEN [name \in DOMAIN AdapterClasses \cap DOMAIN provider_config |-> AdapterClasses[name]]
    ELSE EmptyDict

(* ------------------------------------------------------------------ inputs *)

Domains == {"galileo_notifications"}
Environments == {"dev", "staging", "prod"}
Capacities == {0, 1, 2, 51, 100, 101}
Versions == {"v1.2.3"}
Hostnames == {"LAPTOP-7"}

\* seconds since Monday 00:00: Wednesday 12:00, Friday 10:00
StartTimes == {216000, 381600}
\* the clock moves to the last second of a token's life, or one past it
TickAmounts == {ExpirySeconds, ExpirySeconds + 1}

\* a token value that no check has issued
UnknownToken == "NEVER-ISSUED"

(* ------------------------------------------------------- token generation *)

\* words = ['ALPHA', 'BRAVO', 'CHARLIE', 'DELTA', 'ECHO', 'FOXTROT']
words == <<"ALPHA", "BRAVO", "CHARLIE", "DELTA", "ECHO", "FOXTROT">>

\* random.choice(words), cut down to the first two words
WordDraws == {words[1], words[2]}

\* chars = string.ascii_uppercase + string.digits, cut down to one letter and one digit
chars == {"A", "7"}

RECURSIVE Join(_)
\* ''.join(seq)
Join(seq) == IF seq = <<>> THEN "" ELSE Head(seq) \o Join(Tail(seq))

\* f"{token[:3]}-{token[3:]}" when length == 6, else the raw token
FormatToken(raw, length) ==
  IF length = 6
    THEN Join(SubSeq(raw, 1, 3)) \o "-" \o Join(SubSeq(raw, 4, 6))
    ELSE Join(raw)

\* random.choice(chars) for _ in range(length), cut down to the draws that repeat
\* one symbol
Draws(length) == {[i \in 1..length |-> c] : c \in chars}

\* the values _generate_confirmation_token can return under policy document p:
\* each random.choice is a free choice
GeneratedTokens(p) ==
  LET token_config == Get(Get(p, "confirmations", EmptyDict), "token", EmptyDict)
      token_type == Get(token_config, "type", "alphanumeric")
      length == Get(token_config, "length", DefaultTokenLength)
  IN  IF token_type = "word-based"
        THEN WordDraws
        ELSE {FormatToken(raw, length) : raw \in Draws(length)}

_generate_confirmation_token == GeneratedTokens(policies)

(* ------------------------------------------------------------ policy reads *)

\* self.policies.get('environments', {}).get(environment, {})
EnvConfig(environment) == Get(Get(policies, "environments", EmptyDict), environment, EmptyDict)

\* self.policies.get('guardrails', {}).get('scaling', {})
ScalingGuardrails == Get(Get(policies, "guardrails", EmptyDict), "scaling", EmptyDict)

\* mutant: an environment the document does not list requires confirmation
_requires_confirmation_unless_listed(environment, operation) ==
  LET env_config == EnvConfig(environment)
  IN  IF environment \notin DOMAIN Get(policies, "environments", EmptyDict)
        THEN TRUE
        ELSE IF Truthy(env_config, "confirmations_required")
          THEN operation \in Range(Get(env_config, "confirmation_operations", <<>>))
          ELSE FALSE

_requires_confirmation(environment, operation) ==
  LET env_config == EnvConfig(environment)
  IN  IF Truthy(env_config, "confirmations_required")
        THEN operation \in Range(Get(env_config, "confirmation_operations", <<>>))
        ELSE FALSE

\* mutant: the environment's max_scale_size is ignored
max_size_without_override(environment) ==
  Get(Get(ScalingGuardrails, "max_instances", EmptyDict), "default", DefaultMaxInstances)

\* env_config.get('max_scale_size', guardrails.get('max_instances', {}).get('default', 100))
max_size(environment) ==
  Get(EnvConfig(environment), "max_scale_size",
      Get(Get(ScalingGuardrails, "max_instances", EmptyDict), "default", DefaultMaxInstances))

\* guardrails.get('min_instances', {}).get(environment, 1)
min_size(environment) ==
  Get(Get(ScalingGuardrails, "min_instances", EmptyDict), environment, DefaultMinInstances)

\* datetime.weekday(): Monday is 0, Sunday is 6
weekday(t) == (t \div 86400) % 7

\* deployment_config.get('blackout_windows', [])
blackout_windows(environment) ==
  Get(Get(EnvConfig(environment), "deployment_restrictions", EmptyDict), "blackout_windows", <<>>)

\* 'Friday' in window.get('start', ''): the start string names its day
StartsOnFriday(window) == "start" \in DOMAIN window /\ window.start.day = "Friday"

\* the loop over blackout_windows returns a denial at the first window that matches
blackout_denied(environment, current_time) ==
  \E i \in DOMAIN blackout_windows(environment) :
     StartsOnFriday(blackout_windows(environment)[i]) /\ weekday(current_time) >= 4

\* mutant: timedelta(minutes=300)
expires_at_in_minutes(t) == t + 60 * ExpirySeconds

\* datetime.now() + timedelta(seconds=300)
expires_at(t) == t + ExpirySeconds

\* datetime.now() > confirmation['expires']
is_expired(confirmation, t) == t > confirmation.expires

(* ----------------------------------------------------------------- verdicts *)

Allowed == [allowed |-> TRUE]

Denied(reason) == [allowed |-> FALSE, reason |-> reason]

ConfirmationRequired(token, reason) ==
  [allowed |-> FALSE, requires_confirmation |-> TRUE, token |-> token, reason |-> reason]

\* the f-strings of the reasons, kept as their text and interpolated values
ExceedsMaximum(target_capacity, bound, environment) ==
  [text |-> "Target capacity exceeds maximum", target_capacity |-> target_capacity,
   bound |-> bound, environment |-> environment]

BelowMinimum(target_capacity, bound, environment) ==
  [text |-> "Target capacity below minimum", target_capacity |-> target_capacity,
   bound |-> bound, environment |-> environment]

EnterToken(text, token) == [text |-> text, token |-> token]


(* -------------------------------------------------------------------- state *)

\* no call has just returned: the event loop is free to run the next one
Nothing == [op |-> "none"]

Idle == returned = Nothing

\* what is remembered of a token value.  life: "live" from the check that issued it
\* to the first validate call that names it, then "redeemed" or "expired" by what
\* that call found; issued_at: when the live token was issued; expired_ever:
\* whether a validate call ever found the value expired
NeverIssued == [life |-> "never", issued_at |-> 0, expired_ever |-> FALSE]

\* GuardrailsManager.__init__, the policy document apart
GuardrailsConstructed ==
  /\ pending_confirmations = EmptyDict
  /\ now \in StartTimes
  /\ calls = <<>>
  /\ returned = Nothing
  /\ history = EmptyDict
  /\ nissued = 0
  /\ nvalidates = 0
  /\ ticks = 0

\* DomainResolver.__init__ on the sample configuration
ResolverLoaded ==
  /\ domains = SampleDomains
  /\ providers = SampleProviders

\* datetime.now().strftime("%Y%m%d-%H%M%S") at construction
session_id == "20261031-000000"

current_user == "cursor-user"

\* datetime.isoformat(): the text holds the date and the time of day
isoformat(t) == [date |-> t \div 86400, time |-> t % 86400]

\* datetime.fromisoformat(text).timestamp()
fromisoformat(text) == text.date * 86400 + text.time

\* json.dumps(entry) + '\n': a line of the file
dumps(entry) == [json |-> entry]

\* the entry log_operation builds
initiated_entry(operation, kwargs) ==
  [timestamp |-> isoformat(now), session_id |-> session_id, user |-> current_user,
   operation |-> operation, parameters |-> kwargs, status |-> "initiated"]

\* what logs/audit-<session_id>.jsonl may hold when AuditLogger.__init__ has named
\* it: the constructor neither creates nor truncates the file, so it holds nothing,
\* or the lines of a logger constructed earlier in the same second (same name); each
\* with the ghost record of its writer
SessionFiles ==
  {[lines |-> <<>>, writers |-> <<>>],
   [lines |-> <<dumps(initiated_entry("deploy", [domain |-> "galileo_notifications",
                                                 environment |-> "prod"]))>>,
    writers |-> <<[by |-> 0, at |-> now]>>]}

\* AuditLogger.__init__: the session file is named, not opened; no alert task yet;
\* the callers of the logger run on the event loop
AuditConstructed ==
  /\ \E file \in SessionFiles :
        /\ audit_file = file.lines
        /\ written_by = file.writers
  /\ loop_running = TRUE
  /\ tasks = <<>>

\* PlatformControlPlane._init_providers, from inside a running loop or as __main__
\* calls it, before asyncio.run; InfrastructureTools.__init__: no invocation yet.
\* The initialize() tasks of the adapters are no alert tasks and are not in tasks.
GatewayConstructed ==
  /\ invocations = EmptyDict
  /\ ninvocations = 0
  /\ \E in_loop \in BOOLEAN : registered = _init_providers(providers, in_loop)

\* the components as their constructors leave them, the policy document apart
Constructed ==
  /\ GuardrailsConstructed
  /\ ResolverLoaded
  /\ AuditConstructed
  /\ GatewayConstructed

\* the session file did not exist when the logger was constructed
NewSessionFile == audit_file = <<>>

\* the control plane was constructed as __main__ constructs it
ConstructedByMain == registered = EmptyDict

Init ==
  /\ policies \in PolicyDocs
  /\ Constructed
  /\ NewSessionFile
  /\ ConstructedByMain

\* the guardrails loaded from the policies.yml that names no verbs
InitConfirmAll ==
  /\ policies = ConfirmAllPolicies
  /\ Constructed
  /\ NewSessionFile
  /\ ConstructedByMain

Issued(token) ==
  Put(history, token,
      [life |-> "live", issued_at |-> now,
       expired_ever |-> Get(history, token, NeverIssued).expired_ever])

\* the waiting requests that name token now wait on a new entry: what their
\* rivals got from the old one no longer concerns them
NewEntry(token) ==
  [r \in DOMAIN calls |->
     IF calls[r].token = token THEN [calls[r] EXCEPT !.rival_rets = {}] ELSE calls[r]]

\* a check returns verdict for the call op(args); before is the table it was called on
Return(op, args, verdict) ==
  returned' = [op |-> op, args |-> args, verdict |-> verdict,
               before |-> pending_confirmations]

\* mutant: the token is handed out but never recorded
Confirm_without_record(op, args, token, entry, reason_text) ==
  /\ nissued < MaxIssued
  /\ nissued' = nissued + 1
  /\ pending_confirmations' = pending_confirmations
  /\ history' = Issued(token)
  /\ calls' = NewEntry(token)
  /\ Return(op, args, ConfirmationRequired(token, EnterToken(reason_text, token)))

\* self.pending_confirmations[token] = entry, then return the confirmation verdict
Confirm(op, args, token, entry, reason_text) ==
  /\ nissued < MaxIssued
  /\ nissued' = nissued + 1
  /\ pending_confirmations' = Put(pending_confirmations, token, entry)
  /\ history' = Issued(token)
  /\ calls' = NewEntry(token)
  /\ Return(op, args, ConfirmationRequired(token, EnterToken(reason_text, token)))

\* return without touching the table
Answer(op, args, verdict) ==
  /\ Return(op, args, verdict)
  /\ UNCHANGED <<pending_confirmations, history, calls, nissued>>

(* ------------------------------------------------------------------- checks *)

\* mutant: the confirmation check runs before the bound checks
check_scale_operation_confirm_first(domain, environment, target_capacity) ==
  LET args == [domain |-> domain, environment |-> environment,
               target_capacity |-> target_capacity]
      op == "check_scale_operation"
  IN  /\ Idle
      /\ IF _requires_confirmation(environment, "scale")
           THEN \E token \in _generate_confirmation_token :
                  Confirm(op, args, token,
                          [operation |-> "scale", domain |-> domain,
                           environment |-> environment,
                           details |-> [target_capacity |-> target_capacity],
                           expires |-> expires_at(now)],
                          "Scaling requires confirmation. Enter token")
           ELSE IF target_capacity > max_size(environment)
             THEN Answer(op, args,
                         Denied(ExceedsMaximum(target_capacity, max_size(environment), environment)))
             ELSE IF target_capacity < min_size(environment)
               THEN Answer(op, args,
                           Denied(BelowMinimum(target_capacity, min_size(environment), environment)))
               ELSE Answer(op, args, Allowed)
      /\ UNCHANGED <<policies, now, nvalidates, ticks>>

check_scale_operation(domain, environment, target_capacity) ==
  LET args == [domain |-> domain, environment |-> environment,
               target_capacity |-> target_capacity]
      op == "check_scale_operation"
  IN  /\ Idle
      /\ IF target_capacity > max_size(environment)
           THEN Answer(op, args,
                       Denied(ExceedsMaximum(target_capacity, max_size(environment), environment)))
           ELSE IF target_capacity < min_size(environment)
             THEN Answer(op, args,
                         Denied(BelowMinimum(target_capacity, min_size(environment), environment)))
             ELSE IF _requires_confirmation(environment, "scale")
               THEN \E token \in _generate_confirmation_token :
                      Confirm(op, args, token,
                              [operation |-> "scale", domain |-> domain,
                               environment |-> environment,
                               details |-> [target_capacity |-> target_capacity],
                               expires |-> expires_at(now)],
                              "Scaling requires confirmation. Enter token")
               ELSE Answer(op, args, Allowed)
      /\ UNCHANGED <<policies, now, nvalidates, ticks>>

check_restart_operation(domain, environment) ==
  LET args == [domain |-> domain, environment |-> environment]
      op == "check_restart_operation"
  IN  /\ Idle
      /\ IF _requires_confirmation(environment, "restart")
           THEN \E token \in _generate_confirmation_token :
                  Confirm(op, args, token,
                          [operation |-> "restart", domain |-> domain,
                           environment |-> environment, expires |-> expires_at(now)],
                          "Restarting requires confirmation. Enter token")
           ELSE Answer(op, args, Allowed)
      /\ UNCHANGED <<policies, now, nvalidates, ticks>>

\* mutant: the confirmation check runs before the blackout check
check_deploy_operation_confirm_first(domain, environment, version) ==
  LET args == [domain |-> domain, environment |-> environment, version |-> version]
      op == "check_deploy_operation"
  IN  /\ Idle
      /\ IF _requires_confirmation(environment, "deploy")
           THEN \E token \in _generate_confirmation_token :
                  Confirm(op, args, token,
                          [operation |-> "deploy", domain |-> domain,
                           environment |-> environment,
                           details |-> [version |-> version],
                           expires |-> expires_at(now)],
                          "Deploying requires confirmation. Enter token")
           ELSE IF blackout_denied(environment, now)
             THEN Answer(op, args,
                         Denied([text |-> "Deployments not allowed during blackout window"]))
             ELSE Answer(op, args, Allowed)
      /\ UNCHANGED <<policies, now, nvalidates, ticks>>

check_deploy_operation(domain, environment, version) ==
  LET args == [domain |-> domain, environment |-> environment, version |-> version]
      op == "check_deploy_operation"
  IN  /\ Idle
      /\ IF blackout_denied(environment, now)
           THEN Answer(op, args,
                       Denied([text |-> "Deployments not allowed during blackout window"]))
           ELSE IF _requires_confirmation(environment, "deploy")
             THEN \E token \in _generate_confirmation_token :
                    Confirm(op, args, token,
                            [operation |-> "deploy", domain |-> domain,
                             environment |-> environment,
                             details |-> [version |-> version],
                             expires |-> expires_at(now)],
                            "Deploying requires confirmation. Enter token")
             ELSE Answer(op, args, Allowed)
      /\ UNCHANGED <<policies, now, nvalidates, ticks>>

\* mutant: isolation is confirmed only where the policy asks for it
check_isolation_operation_by_policy(hostname) ==
  LET args == [hostname |-> hostname]
      op == "check_isolation_operation"
  IN  /\ Idle
      /\ IF \E e \in Environments : _requires_confirmation(e, "isolate_endpoint")
           THEN \E token \in _generate_confirmation_token :
                  Confirm(op, args, token,
                          [operation |-> "isolate_endpoint", hostname |-> hostname,
                           expires |-> expires_at(now)],
                          "Isolating will block user access! Enter token to confirm")
           ELSE Answer(op, args, Allowed)
      /\ UNCHANGED <<policies, now, nvalidates, ticks>>

check_isolation_operation(hostname) ==
  LET args == [hostname |-> hostname]
      op == "check_isolation_operation"
  IN  /\ Idle
      /\ \E token \in _generate_confirmation_token :
            Confirm(op, args, token,
                    [operation |-> "isolate_endpoint", hostname |-> hostname,
                     expires |-> expires_at(now)],
                    "Isolating will block user access! Enter token to confirm")
      /\ UNCHANGED <<policies, now, nvalidates, ticks>>

(* ------------------------------------------------------ validate_confirmation *)

\* mutant: an unexpired token is approved and left in the table
validate_table_keeps_redeemed(pending, token, t) ==
  IF token \notin DOMAIN pending
    THEN pending
    ELSE IF is_expired(pending[token], t) THEN Del(pending, token) ELSE pending

\* mutant: only the expiry is looked at; a token that is not in the table passes
validate_result_without_lookup(pending, token, t) ==
  IF token \in DOMAIN pending /\ is_expired(pending[token], t) THEN FALSE ELSE TRUE

\* the value validate_confirmation(token) returns on table pending at time t
validate_result(pending, token, t) ==
  IF token \notin DOMAIN pending
    THEN FALSE
    ELSE IF is_expired(pending[token], t) THEN FALSE ELSE TRUE

\* mutant: every expired entry is swept out along with the named token
validate_table_sweeping(pending, token, t) ==
  [x \in {y \in DOMAIN pending : y # token /\ ~is_expired(pending[y], t)} |-> pending[x]]

\* the table validate_confirmation(token) leaves behind
validate_table(pending, token, t) ==
  IF token \notin DOMAIN pending
    THEN pending
    ELSE IF is_expired(pending[token], t) THEN Del(pending, token) ELSE Del(pending, token)

\* a validate call at time t ends the life of a live token
Validated(h, t) ==
  IF h.life # "live" THEN h
  ELSE IF t > h.issued_at + ExpirySeconds
         THEN [life |-> "expired", issued_at |-> 0, expired_ever |-> TRUE]
         ELSE [life |-> "redeemed", issued_at |-> 0, expired_ever |-> h.expired_ever]

\* the requests that wait on the event loop, without the one at position r
Without(r) == SubSeq(calls, 1, r - 1) \o SubSeq(calls, r + 1, Len(calls))

\* token is in the table and has not expired
Redeemable(token) ==
  /\ token \in DOMAIN pending_confirmations
  /\ ~is_expired(pending_confirmations[token], now)

\* a caller submits validate_confirmation(token): the coroutine waits for the event
\* loop.  It races when another request already waits on the same pending,
\* unexpired token.
ValidateCall(token) ==
  /\ Idle
  /\ nvalidates < MaxValidates
  /\ nvalidates' = nvalidates + 1
  /\ LET racing == Redeemable(token) /\ \E r \in DOMAIN calls : calls[r].token = token
     IN  calls' = Append([r \in DOMAIN calls |->
                            IF racing /\ calls[r].token = token
                              THEN [calls[r] EXCEPT !.raced = TRUE] ELSE calls[r]],
                         [token |-> token, raced |-> racing, rival_rets |-> {}])
  /\ UNCHANGED <<policies, pending_confirmations, now, returned, history, nissued, ticks>>

\* the event loop runs the body of the waiting request r to completion; the racing
\* requests left behind learn what it returned
validate_confirmation(r) ==
  /\ Idle
  /\ r \in DOMAIN calls
  /\ LET token == calls[r].token
         h == Get(history, token, NeverIssued)
         ret == validate_result(pending_confirmations, token, now)
         rest == Without(r)
     IN  /\ pending_confirmations' = validate_table(pending_confirmations, token, now)
         /\ calls' = [q \in DOMAIN rest |->
                        IF rest[q].token = token /\ rest[q].raced /\ calls[r].raced
                          THEN [rest[q] EXCEPT !.rival_rets = @ \cup {ret}]
                          ELSE rest[q]]
         /\ returned' = [op |-> "validate_confirmation", args |-> [token |-> token],
                         ret |-> ret, before |-> pending_confirmations, seen |-> h,
                         raced |-> calls[r].raced, rival_rets |-> calls[r].rival_rets]
         /\ history' =
              IF token \in DOMAIN history
                THEN Put(history, token, Validated(h, now))
                ELSE history
  /\ UNCHANGED <<policies, now, nissued, nvalidates, ticks>>

\* the awaiting caller takes the result: the event loop moves on
TakeResult ==
  /\ ~Idle
  /\ returned' = Nothing
  /\ UNCHANGED <<policies, pending_confirmations, now, calls, history, nissued, nvalidates, ticks>>

(* -------------------------------------------------------------------- clock *)

Tick(d) ==
  /\ Idle
  /\ ticks < MaxTicks
  /\ now' = now + d
  /\ ticks' = ticks + 1
  /\ UNCHANGED <<policies, pending_confirmations, calls, returned, history, nissued, nvalidates>>

(* ----------------------------------------------------------------- resolver *)

\* a call that raises: what its caller gets instead of a value
Raised(exception) == [raised |-> exception]

DidRaise(ret) == "raised" \in DOMAIN ret

\* a Python value that is a str, and one that is a list
Str(x) == [str |-> x]
List(xs) == [list |-> xs]

\* refs = resource_config.get('refs') or [resource_config.get('ref')]
refs_of(resource_config) ==
  IF "refs" \in DOMAIN resource_config /\ resource_config.refs # <<>>
    THEN resource_config.refs
    ELSE <<Get(resource_config, "ref", None)>>

\* ResolvedResource(...) as resolve builds it from the catalog entry
ResolvedResource(domain, environment, resource_type, resource_config) ==
  LET refs == refs_of(resource_config)
  IN  [domain |-> domain, environment |-> environment, resource_type |-> resource_type,
       provider |-> Get(resource_config, "provider", None),
       kind |-> Get(resource_config, "kind", None),
       ref |-> IF Len(refs) = 1 THEN Str(refs[1]) ELSE List(refs),
       region |-> Get(resource_config, "region", None),
       account |-> Get(resource_config, "account", None),
       resource_group |-> Get(resource_config, "resource_group", None),
       subscription |-> Get(resource_config, "subscription", None),
       project |-> Get(resource_config, "project", None),
       metadata |-> Get(resource_config, "metadata", EmptyDict)]

\* mutant: the provider's default region is written over the catalog's region
with_default_region_always(resolved, provider_config) ==
  IF "default_region" \in DOMAIN provider_config
    THEN [resolved EXCEPT !.region = provider_config.default_region]
    ELSE resolved

\* if not resolved.region and 'default_region' in provider_config
with_default_region(resolved, provider_config) ==
  IF Falsy(resolved.region) /\ "default_region" \in DOMAIN provider_config
    THEN [resolved EXCEPT !.region = provider_config.default_region]
    ELSE resolved

\* the if / elif chain over aws accounts, azure subscriptions and gcp projects
with_default_owner(resolved, provider_config, environment) ==
  IF resolved.provider = "aws" /\ Falsy(resolved.account)
    THEN IF environment \in DOMAIN Get(provider_config, "accounts", EmptyDict)
           THEN [resolved EXCEPT !.account = provider_config.accounts[environment]]
           ELSE resolved
  ELSE IF resolved.provider = "azure" /\ Falsy(resolved.subscription)
    THEN IF environment \in DOMAIN Get(provider_config, "subscriptions", EmptyDict)
           THEN [resolved EXCEPT !.subscription = provider_config.subscriptions[environment]]
           ELSE resolved
  ELSE IF resolved.provider = "gcp" /\ Falsy(resolved.project)
    THEN IF environment \in DOMAIN Get(provider_config, "projects", EmptyDict)
           THEN [resolved EXCEPT !.project = provider_config.projects[environment]]
           ELSE resolved
  ELSE resolved

\* raise ValueError(f"{level} '{asked}' not found ... Available: {available}"): the
\* message names the level, what was asked for and the keys list(d.keys()) gives
NotFound(level, asked, available) ==
  [raised |-> "ValueError", missing |-> level, asked |-> asked, available |-> available]

\* list(self.domains.keys())
available_domains == DOMAIN domains

\* available_envs = list(self.domains[domain].keys())
available_envs(domain) == DOMAIN domains[domain]

\* mutant: the keys of the domain are listed where those of the environment belong
available_types_of_domain(domain, environment) == DOMAIN domains[domain]

\* available_types = list(env_config.keys())
available_types(domain, environment) == DOMAIN domains[domain][environment]

\* what resolve(domain, environment, resource_type) returns, or the ValueError it raises
resolve(domain, environment, resource_type) ==
  IF domain \notin DOMAIN domains THEN NotFound("Domain", domain, available_domains)
  ELSE IF environment \notin DOMAIN domains[domain]
    THEN NotFound("Environment", environment, available_envs(domain))
  ELSE IF resource_type \notin DOMAIN domains[domain][environment]
    THEN NotFound("Resource type", resource_type, available_types(domain, environment))
  ELSE LET resource_config == domains[domain][environment][resource_type]
           resolved == ResolvedResource(domain, environment, resource_type, resource_config)
       IN  IF Falsy(refs_of(resource_config)[1]) THEN Raised("ValueError")
           ELSE IF resolved.provider \in DOMAIN providers
             THEN with_default_owner(
                    with_default_region(resolved, providers[resolved.provider]),
                    providers[resolved.provider], environment)
             ELSE resolved

\* the logical names a caller may ask for
ResolveDomains == Domains \cup {"no_such_service"}

\* a caller resolves a logical name
Resolve(domain, environment, resource_type) ==
  /\ Idle
  /\ returned' = [op |-> "resolve",
                  args |-> [domain |-> domain, environment |-> environment,
                            resource_type |-> resource_type],
                  ret |-> resolve(domain, environment, resource_type)]
  /\ UNCHANGED <<policies, pending_confirmations, now, calls, history, nissued,
                 nvalidates, ticks, resolver_vars, audit_vars, gateway_vars>>

(* -------------------------------------------------------------------- audit *)

\* a Python value that is a dict, and None passed as a result
Dict(d) == [dict |-> d]
NoResult == [none |-> TRUE]

safe_fields == <<"success", "status", "count", "name", "domain", "environment">>

\* mutant: the whole result is copied into the summary
summarize_whole_result(result) ==
  IF result = NoResult THEN EmptyDict
  ELSE IF "dict" \in DOMAIN result THEN result.dict
  ELSE [type |-> "str"]

\* AuditLogger._summarize_result
_summarize_result(result) ==
  IF result = NoResult THEN EmptyDict
  ELSE IF "dict" \in DOMAIN result
    THEN [field \in Range(safe_fields) \cap DOMAIN result.dict |-> result.dict[field]]
  ELSE [type |-> "str"]

\* the entries the other three log calls build
success_entry(operation, result, kwargs) ==
  [timestamp |-> isoformat(now), session_id |-> session_id, user |-> current_user,
   operation |-> operation, parameters |-> kwargs, status |-> "success",
   result_summary |-> _summarize_result(result)]

failed_entry(operation, error, kwargs) ==
  [timestamp |-> isoformat(now), session_id |-> session_id, user |-> current_user,
   operation |-> operation, parameters |-> kwargs, status |-> "failed", error |-> error]

security_entry(event_type, severity, details) ==
  [timestamp |-> isoformat(now), session_id |-> session_id, user |-> current_user,
   event_type |-> "security", security_event |-> event_type, severity |-> severity,
   details |-> details]

\* mutant: open(self.audit_file, 'w')
appended_truncating(file, line) == <<line>>

\* the last line of the file has no '\n' yet: a write was cut short
unterminated(file) ==
  /\ file # <<>>
  /\ "newline" \in DOMAIN file[Len(file)]
  /\ ~file[Len(file)].newline

\* f.write(text) on a file opened with 'a'; newline: the text ends with it.  The
\* text continues the last line when that line has no newline yet; a line that was
\* continued holds its pieces
written(file, text, newline) ==
  IF unterminated(file)
    THEN [file EXCEPT ![Len(file)] = [pieces |-> Append(@.pieces, text), newline |-> newline]]
  ELSE IF newline
    THEN Append(file, text)
  ELSE Append(file, [pieces |-> <<text>>, newline |-> FALSE])

\* with open(self.audit_file, 'a') as f: f.write(line)
appended(file, line) == written(file, line, TRUE)

\* the ghost records of file's lines once k (0: a direct caller) has written to it
writers(by, file, k) ==
  IF unterminated(file)
    THEN [by EXCEPT ![Len(by)] = [by |-> k, at |-> now]]
    ELSE Append(by, [by |-> k, at |-> now])

\* the invocation k writes entry at the end of the file
Write(entry, k) ==
  /\ audit_file' = appended(audit_file, dumps(entry))
  /\ written_by' = writers(written_by, audit_file, k)

\* two log calls of invocation k, one after the other
WriteBoth(first, second, k) ==
  LET file == appended(audit_file, dumps(first))
  IN  /\ audit_file' = appended(file, dumps(second))
      /\ written_by' = writers(writers(written_by, audit_file, k), file, k)

RECURSIVE Texts(_)
\* the number of texts that were written to the file
Texts(file) ==
  IF file = <<>> THEN 0
  ELSE Texts(Tail(file)) + (IF "pieces" \in DOMAIN Head(file) THEN Len(Head(file).pieces) ELSE 1)

critical_operations == <<"isolate_endpoint", "failover", "deploy">>

alert_severities == <<"critical", "high">>

\* asyncio.create_task(coroutine): the task joins the running loop; with no running
\* loop the call raises RuntimeError.  Gives the exception raised, None when none.
create_task(coroutine) ==
  IF loop_running
    THEN /\ tasks' = Append(tasks, coroutine)
         /\ UNCHANGED loop_running
    ELSE UNCHANGED <<tasks, loop_running>>

create_task_raises == IF loop_running THEN None ELSE "RuntimeError"

\* a log call returns to its caller, or raises; before is the file it was called on
LogReturn(op, args, raised) ==
  returned' = [op |-> op, args |-> args, raised |-> raised, before |-> audit_file]

\* what the audit logger leaves alone
AuditFrame ==
  UNCHANGED <<policies, pending_confirmations, now, calls, history, nissued, nvalidates,
              ticks, resolver_vars, gateway_vars>>

log_operation(operation, kwargs) ==
  /\ Idle
  /\ Texts(audit_file) < MaxLines
  /\ Write(initiated_entry(operation, kwargs), 0)
  /\ LogReturn("log_operation", [operation |-> operation, kwargs |-> kwargs], None)
  /\ UNCHANGED <<loop_running, tasks>>
  /\ AuditFrame

log_success(operation, result, kwargs) ==
  /\ Idle
  /\ Texts(audit_file) < MaxLines
  /\ Write(success_entry(operation, result, kwargs), 0)
  /\ LogReturn("log_success",
               [operation |-> operation, result |-> result, kwargs |-> kwargs], None)
  /\ UNCHANGED <<loop_running, tasks>>
  /\ AuditFrame

\* log_error writes the entry, then _check_alert_conditions schedules the alert
log_error(operation, error, kwargs) ==
  /\ Idle
  /\ Texts(audit_file) < MaxLines
  /\ Write(failed_entry(operation, error, kwargs), 0)
  /\ IF operation \in Range(critical_operations)
       THEN /\ create_task([alert |-> "_send_operational_alert",
                            operation |-> operation, error |-> error])
            /\ LogReturn("log_error",
                         [operation |-> operation, error |-> error, kwargs |-> kwargs],
                         create_task_raises)
       ELSE /\ UNCHANGED <<loop_running, tasks>>
            /\ LogReturn("log_error",
                         [operation |-> operation, error |-> error, kwargs |-> kwargs],
                         None)
  /\ AuditFrame

log_security_event(event_type, severity, details) ==
  /\ Idle
  /\ Texts(audit_file) < MaxLines
  /\ Write(security_entry(event_type, severity, details), 0)
  /\ IF severity \in Range(alert_severities)
       THEN /\ create_task([alert |-> "_send_security_alert", event_type |-> event_type,
                            severity |-> severity, details |-> details])
            /\ LogReturn("log_security_event",
                         [event_type |-> event_type, severity |-> severity,
                          details |-> details],
                         create_task_raises)
       ELSE /\ UNCHANGED <<loop_running, tasks>>
            /\ LogReturn("log_security_event",
                         [event_type |-> event_type, severity |-> severity,
                          details |-> details],
                         None)
  /\ AuditFrame

\* the event loop runs an alert task to its end; it may fail, and its exception
\* stays in the task
RunAlert(outcome) ==
  /\ Idle
  /\ tasks # <<>>
  /\ tasks' = Tail(tasks)
  /\ UNCHANGED <<audit_file, written_by, loop_running, returned>>
  /\ AuditFrame

\* json.loads(line) gives a dict with a timestamp that fromisoformat reads: the
\* body of the try block runs through.  A line made of pieces is no JSON document.
well_formed(line) == "json" \in DOMAIN line /\ "timestamp" \in DOMAIN line.json

RECURSIVE scan_to_first_malformed(_, _, _)
\* mutant: the try block is around the loop, the scan ends at the first malformed line
scan_to_first_malformed(lines, cutoff_time, operation_filter) ==
  IF lines = <<>> THEN <<>>
  ELSE IF ~well_formed(Head(lines)) THEN <<>>
  ELSE LET entry == Head(lines).json
           rest == scan_to_first_malformed(Tail(lines), cutoff_time, operation_filter)
       IN  IF /\ fromisoformat(entry.timestamp) >= cutoff_time
              /\ (operation_filter = None \/ Get(entry, "operation", None) = operation_filter)
             THEN <<entry>> \o rest
             ELSE rest

RECURSIVE scan(_, _, _)
\* for line in f: try: ... operations.append(entry) except: continue
scan(lines, cutoff_time, operation_filter) ==
  IF lines = <<>> THEN <<>>
  ELSE IF ~well_formed(Head(lines)) THEN scan(Tail(lines), cutoff_time, operation_filter)
  ELSE LET entry == Head(lines).json
           rest == scan(Tail(lines), cutoff_time, operation_filter)
       IN  IF /\ fromisoformat(entry.timestamp) >= cutoff_time
              /\ (operation_filter = None \/ Get(entry, "operation", None) = operation_filter)
             THEN <<entry>> \o rest
             ELSE rest

\* cutoff_time = datetime.now().timestamp() - (minutes * 60), then the scan
get_recent_operations(minutes, operation_filter) ==
  /\ Idle
  /\ returned' = [op |-> "get_recent_operations",
                  args |-> [minutes |-> minutes, operation_filter |-> operation_filter],
                  ret |-> scan(audit_file, now - minutes * 60, operation_filter),
                  raised |-> None, before |-> audit_file]
  /\ UNCHANGED audit_vars
  /\ AuditFrame

\* the report's frame; the audit file is not read
generate_compliance_report(start_date, end_date) ==
  /\ Idle
  /\ returned' = [op |-> "generate_compliance_report",
                  args |-> [start_date |-> start_date, end_date |-> end_date],
                  ret |-> [period |-> [start |-> isoformat(start_date),
                                       end |-> isoformat(end_date)],
                           operations |-> [total |-> 0, by_type |-> EmptyDict,
                                           by_user |-> EmptyDict,
                                           by_environment |-> EmptyDict],
                           failures |-> <<>>, security_events |-> <<>>,
                           high_risk_operations |-> <<>>],
                  raised |-> None, before |-> audit_file]
  /\ UNCHANGED audit_vars
  /\ AuditFrame

\* the lines that are no audit entry: text that is no JSON, JSON with no timestamp
MalformedLines == {[text |-> "{\"timestamp\": \"2026-10"], [json |-> [operation |-> "deploy"]]}

\* a text that is no audit entry gets into the session file: another writer's line,
\* or a write cut short, which leaves no newline
Corrupt(line, newline) ==
  /\ Idle
  /\ Texts(audit_file) < MaxLines
  /\ audit_file' = written(audit_file, line, newline)
  /\ written_by' = writers(written_by, audit_file, 0)
  /\ UNCHANGED <<loop_running, tasks, returned>>
  /\ AuditFrame

\* what the callers of the audit logger pass
AuditOperations == {"scale_service", "deploy"}
AuditParameters == {[domain |-> "galileo_notifications", environment |-> "prod"]}
ErrorTexts == {"Throttling: Rate exceeded"}
SecurityEvents == {"unauthorized_access"}
Severities == {"critical", "low"}
SecurityDetails == {[hostname |-> "LAPTOP-7"]}
Minutes == {1, 5}
Filters == {None, "deploy"}

\* a result with every field the callers' results may carry
WholeResult(secret) ==
  [success |-> TRUE, status |-> "running", count |-> 3, name |-> "galileo-notify-asg-prod",
   domain |-> "galileo_notifications", environment |-> "prod",
   token |-> secret, details |-> "InstanceIds"]

ResultKeys ==
  {{"success", "token"}, {"token", "details"},
   {"success", "status", "count", "name", "domain", "environment", "token", "details"}}

Secrets == {"hunter2", "s3cr3t"}

ResultDicts == {[k \in keys |-> WholeResult(secret)[k]] : keys \in ResultKeys, secret \in Secrets}

Results == {Dict(d) : d \in ResultDicts} \cup {NoResult, Str("done")}

(* ------------------------------------------------------------------ gateway *)

\* what a provider adapter answers to an awaited call: a ServiceInfo, an
\* OperationResult that is successful or not, or an exception
StatusReplies == {[instance_count |-> 3, unhealthy_count |-> 0], Raised("ClientError")}

OperationReplies ==
  {[success |-> TRUE, details |-> "InstanceIds"],
   [success |-> FALSE, error |-> "ValidationError", message |-> "Failed"],
   Raised("ClientError")}

GatewayCapacities == {2, 51}

\* the gateway operations that ask the guardrails first, and the adapter call each makes
Guarded == {"scale_service", "restart_service", "deploy_service"}

ProviderCall(op) ==
  CASE op = "scale_service" -> "provider.scale"
    [] op = "restart_service" -> "provider.restart"
    [] op = "deploy_service" -> "provider.deploy"
    [] op = "get_status" -> "provider.get_status"

\* the adapter method each gateway operation calls inside its try block
ProviderMethod(op) ==
  CASE op = "scale_service" -> "scale"
    [] op = "restart_service" -> "restart"
    [] op = "deploy_service" -> "deploy"
    [] op = "get_status" -> "get_status"

\* what provider.<name> raises on an adapter whose class does not define name; the
\* text of the exception names the class and the attribute
AttributeError(class, name) ==
  [type |-> "AttributeError", object |-> class, attribute |-> name]

\* DomainResolver.to_compute_ref
to_compute_ref(resolved) ==
  [provider |-> resolved.provider, kind |-> resolved.kind,
   ref |-> IF "str" \in DOMAIN resolved.ref THEN resolved.ref.str ELSE resolved.ref.list[1],
   region |-> resolved.region,
   account |-> IF Falsy(resolved.account) THEN None ELSE resolved.account,
   resource_group |-> resolved.resource_group,
   project |-> resolved.project]

\* the invocation does one more thing
Did(inv, event) == [inv EXCEPT !.trace = Append(@, event)]

\* the invocation returns result to its caller
Returns(inv, result) == Merge(inv, [pc |-> "returned", result |-> result])

\* an exception leaves the gateway coroutine
Propagates(inv, exception) == Merge(inv, [pc |-> "raised", result |-> Raised(exception)])

\* the pending tokens, not expired, that were issued for this very request: the
\* caller who repeats the request holds one of them
Held(op, args) ==
  {t \in DOMAIN pending_confirmations :
     LET entry == pending_confirmations[t]
     IN  /\ ~is_expired(entry, now)
         /\ "domain" \in DOMAIN entry
         /\ entry.domain = args.domain
         /\ entry.environment = args.environment
         /\ \/ op = "scale_service" /\ entry.operation = "scale"
               /\ entry.details.target_capacity = args.capacity
            \/ op = "restart_service" /\ entry.operation = "restart"
            \/ op = "deploy_service" /\ entry.operation = "deploy"
               /\ entry.details.version = args.version}

\* a gateway coroutine that a caller has just invoked
Invocation(op, args, pc, trace) ==
  [op |-> op, args |-> args, pc |-> pc, trace |-> trace, held |-> Held(op, args)]

\* the coroutine awaits the adapter call with the compute reference of resolved
Awaits(inv, call, pc, resolved) ==
  Merge(Did(inv, call),
        [pc |-> pc, resolved |-> resolved, compute_ref |-> to_compute_ref(resolved)])

\* the result the gateway makes of a verdict that is not allowed
denial(check) ==
  [success |-> FALSE, error |-> check.reason,
   requires_confirmation |-> Get(check, "requires_confirmation", FALSE),
   confirmation_token |-> Get(check, "token", None)]

\* mutant: if check.get('requires_confirmation') or check['allowed']
proceeds_on_confirmation(check) == check.allowed \/ Get(check, "requires_confirmation", FALSE)

\* if not check['allowed']: return ...
proceeds(check) == check.allowed

unavailable(provider) ==
  [success |-> FALSE, error |-> [text |-> "Provider not available", provider |-> provider]]

failure(error, args) ==
  [success |-> FALSE, error |-> [text |-> error],
   domain |-> args.domain, environment |-> args.environment]

\* the keyword arguments of the gateway's log_operation call
initiated_kwargs(inv, resolved) ==
  CASE inv.op = "scale_service" ->
         [domain |-> inv.args.domain, environment |-> inv.args.environment,
          resource_type |-> inv.args.resource_type, provider |-> resolved.provider,
          current_capacity |-> inv.current_capacity, target_capacity |-> inv.args.capacity,
          user |-> current_user]
    [] inv.op = "deploy_service" ->
         [domain |-> inv.args.domain, environment |-> inv.args.environment,
          version |-> inv.args.version, strategy |-> "rolling",
          provider |-> resolved.provider, user |-> current_user]
    [] OTHER ->
         [domain |-> inv.args.domain, environment |-> inv.args.environment,
          resource_type |-> inv.args.resource_type, provider |-> resolved.provider,
          user |-> current_user]

\* the keyword arguments of the gateway's log_error call
failed_kwargs(inv) ==
  IF inv.op = "deploy_service"
    THEN [domain |-> inv.args.domain, environment |-> inv.args.environment,
          version |-> inv.args.version]
    ELSE [domain |-> inv.args.domain, environment |-> inv.args.environment]

\* mutant: every awaited adapter call is inside the try block
in_try_always(op, call) == TRUE

\* the awaited adapter call is inside the coroutine's try block: scale_service asks
\* for the current status before it
in_try(op, call) == ~(op = "scale_service" /\ call = "provider.get_status")

\* self.audit.log_operation(...) of invocation k
GatewayLogOperation(k, inv, resolved) ==
  /\ Write(initiated_entry(inv.op, initiated_kwargs(inv, resolved)), k)
  /\ UNCHANGED <<loop_running, tasks>>

\* self.audit.log_error(...) of invocation k, inside a running event loop
GatewayLogError(k, inv, error) ==
  /\ Write(failed_entry(inv.op, error, failed_kwargs(inv)), k)
  /\ IF inv.op \in Range(critical_operations)
       THEN create_task([alert |-> "_send_operational_alert",
                         operation |-> inv.op, error |-> error])
       ELSE UNCHANGED <<loop_running, tasks>>

\* log_operation, then log_error from the except clause, with no await between
GatewayLogBoth(k, inv, resolved, error) ==
  /\ WriteBoth(initiated_entry(inv.op, initiated_kwargs(inv, resolved)),
               failed_entry(inv.op, error, failed_kwargs(inv)), k)
  /\ IF inv.op \in Range(critical_operations)
       THEN create_task([alert |-> "_send_operational_alert",
                         operation |-> inv.op, error |-> error])
       ELSE UNCHANGED <<loop_running, tasks>>

\* the guardrails are not called
GuardrailsFrame ==
  UNCHANGED <<policies, pending_confirmations, now, calls, returned, history, nissued,
              nvalidates, ticks>>

\* from the resolve call to the first await of a provider adapter
dispatch(k, inv0) ==
  LET inv == Did(inv0, "resolve")
      resolved == resolve(inv.args.domain, inv.args.environment, inv.args.resource_type)
      found == Did(inv, "providers.get")
      provider == Get(registered, resolved.provider, None)
      missing == AttributeError(provider, ProviderMethod(inv.op))
  IN  IF DidRaise(resolved)
        THEN /\ invocations' = Put(invocations, k, Propagates(inv, resolved.raised))
             /\ UNCHANGED audit_vars
      ELSE IF provider = None
        THEN /\ invocations' = Put(invocations, k,
                                   Returns(found, unavailable(resolved.provider)))
             /\ UNCHANGED audit_vars
      ELSE IF inv.op = "scale_service" /\ "get_status" \in AdapterMethods(provider)
        THEN /\ invocations' =
                  Put(invocations, k,
                      Awaits(found, "provider.get_status", "get_status", resolved))
             /\ UNCHANGED audit_vars
      ELSE IF inv.op = "scale_service" /\ in_try(inv.op, "provider.get_status")
        THEN /\ GatewayLogError(k, inv, AttributeError(provider, "get_status"))
             /\ invocations' =
                  Put(invocations, k,
                      Returns(Did(found, "log_error"),
                              failure(AttributeError(provider, "get_status"), inv.args)))
      ELSE IF inv.op = "scale_service"
        THEN /\ invocations' =
                  Put(invocations, k,
                      Propagates(found, AttributeError(provider, "get_status")))
             /\ UNCHANGED audit_vars
      ELSE IF ProviderMethod(inv.op) \in AdapterMethods(provider)
        THEN /\ GatewayLogOperation(k, inv, resolved)
             /\ invocations' = Put(invocations, k,
                                   Awaits(Did(found, "log_operation"), ProviderCall(inv.op),
                                          "provider", resolved))
      ELSE /\ GatewayLogBoth(k, inv, resolved, missing)
           /\ invocations' = Put(invocations, k,
                                 Returns(Did(Did(found, "log_operation"), "log_error"),
                                         failure(missing, inv.args)))

\* InfrastructureTools.get_status up to its await
get_status(domain, environment, resource_type) ==
  /\ Idle
  /\ ninvocations < MaxInvocations
  /\ ninvocations' = ninvocations + 1
  /\ dispatch(ninvocations + 1,
              Invocation("get_status",
                         [domain |-> domain, environment |-> environment,
                          resource_type |-> resource_type], "start", <<>>))
  /\ GuardrailsFrame
  /\ UNCHANGED <<resolver_vars, registered>>

\* a guarded coroutine starts: it calls its guardrail check
Guard(op, args) ==
  /\ ninvocations < MaxInvocations
  /\ ninvocations' = ninvocations + 1
  /\ invocations' = Put(invocations, ninvocations + 1,
                        Invocation(op, args, "check", <<"check">>))
  /\ UNCHANGED <<resolver_vars, audit_vars, registered>>

\* InfrastructureTools.scale_service up to the return of check_scale_operation
scale_service(domain, environment, capacity, resource_type) ==
  /\ check_scale_operation(domain, environment, capacity)
  /\ Guard("scale_service",
           [domain |-> domain, environment |-> environment, capacity |-> capacity,
            resource_type |-> resource_type])

restart_service(domain, environment, resource_type) ==
  /\ check_restart_operation(domain, environment)
  /\ Guard("restart_service",
           [domain |-> domain, environment |-> environment,
            resource_type |-> resource_type])

deploy_service(domain, environment, version) ==
  /\ check_deploy_operation(domain, environment, version)
  /\ Guard("deploy_service",
           [domain |-> domain, environment |-> environment, version |-> version,
            resource_type |-> "compute"])

\* the coroutine takes the verdict: it returns the denial, or goes on to the first
\* await of a provider adapter
Checked(k) ==
  /\ k \in DOMAIN invocations
  /\ invocations[k].pc = "check"
  /\ TakeResult
  /\ LET check == returned.verdict
         inv == Merge(invocations[k], [check |-> check])
     IN  IF proceeds(check)
           THEN dispatch(k, inv)
           ELSE /\ invocations' = Put(invocations, k, Returns(inv, denial(check)))
                /\ UNCHANGED audit_vars
  /\ UNCHANGED <<resolver_vars, ninvocations, registered>>

\* scale_service: the adapter answers the request for the current status
StatusReturns(k, reply) ==
  /\ Idle
  /\ k \in DOMAIN invocations
  /\ invocations[k].pc = "get_status"
  /\ LET inv == invocations[k]
     IN  IF DidRaise(reply)
           THEN IF in_try(inv.op, "provider.get_status")
                  THEN /\ GatewayLogError(k, inv, reply.raised)
                       /\ invocations' =
                            Put(invocations, k,
                                Returns(Did(inv, "log_error"), failure(reply.raised, inv.args)))
                  ELSE /\ invocations' = Put(invocations, k, Propagates(inv, reply.raised))
                       /\ UNCHANGED audit_vars
           ELSE LET counted == Merge(inv, [current_capacity |-> reply.instance_count])
                    provider == registered[inv.resolved.provider]
                    missing == AttributeError(provider, ProviderMethod(inv.op))
                IN  IF ProviderMethod(inv.op) \in AdapterMethods(provider)
                      THEN /\ GatewayLogOperation(k, counted, inv.resolved)
                           /\ invocations' =
                                Put(invocations, k,
                                    Merge(Did(Did(counted, "log_operation"),
                                              ProviderCall(inv.op)),
                                          [pc |-> "provider"]))
                      ELSE /\ GatewayLogBoth(k, counted, inv.resolved, missing)
                           /\ invocations' =
                                Put(invocations, k,
                                    Returns(Did(Did(counted, "log_operation"), "log_error"),
                                            failure(missing, inv.args)))
  /\ GuardrailsFrame
  /\ UNCHANGED <<resolver_vars, ninvocations, registered>>

\* the result of an invocation that the adapter served
served(inv, reply) ==
  IF inv.op = "get_status"
    THEN [success |-> TRUE, domain |-> inv.args.domain, environment |-> inv.args.environment,
          instances |-> [total |-> reply.instance_count, unhealthy |-> reply.unhealthy_count],
          provider |-> inv.resolved.provider, region |-> inv.resolved.region]
  ELSE IF reply.success
    THEN [success |-> TRUE, domain |-> inv.args.domain, environment |-> inv.args.environment,
          provider |-> inv.resolved.provider, details |-> reply.details]
    ELSE [success |-> FALSE, error |-> [text |-> reply.error], message |-> reply.message,
          domain |-> inv.args.domain, environment |-> inv.args.environment]

\* the adapter answers the awaited scale, restart, deploy or get_status call
OperationReturns(k, reply) ==
  /\ Idle
  /\ k \in DOMAIN invocations
  /\ invocations[k].pc = "provider"
  /\ reply \in IF invocations[k].op = "get_status" THEN StatusReplies ELSE OperationReplies
  /\ LET inv == invocations[k]
     IN  IF DidRaise(reply)
           THEN /\ GatewayLogError(k, inv, reply.raised)
                /\ invocations' =
                     Put(invocations, k,
                         Returns(Did(inv, "log_error"), failure(reply.raised, inv.args)))
           ELSE /\ invocations' = Put(invocations, k, Returns(inv, served(inv, reply)))
                /\ UNCHANGED audit_vars
  /\ GuardrailsFrame
  /\ UNCHANGED <<resolver_vars, ninvocations, registered>>

\* the caller takes what the coroutine returned or raised
Finish(k) ==
  /\ Idle
  /\ k \in DOMAIN invocations
  /\ invocations[k].pc \in {"returned", "raised"}
  /\ invocations' = Del(invocations, k)
  /\ GuardrailsFrame
  /\ UNCHANGED <<resolver_vars, audit_vars, ninvocations, registered>>

(* ------------------------------------------------------------- health check *)

\* a ServiceInfo with an unhealthy instance, and what get_db_status may answer
HealthReplies == StatusReplies \cup {[instance_count |-> 3, unhealthy_count |-> 1]}

DatabaseReplies == {[status |-> "available"], [status |-> "stopped"], Raised("ClientError")}

\* DomainResolver.list_resources
list_resources(domain, environment) ==
  IF domain \notin DOMAIN domains THEN {}
  ELSE IF environment \notin DOMAIN domains[domain] THEN {}
  ELSE DOMAIN domains[domain][environment]

\* health_status['checks']['compute'] made of what get_status returned
compute_check(compute_status) ==
  [healthy |-> Get(Get(compute_status, "instances", EmptyDict), "unhealthy", 0) = 0,
   details |-> compute_status]

\* the except branch of the compute check
unable_to_check == [healthy |-> FALSE, error |-> "Unable to check"]

database_check(db_status) ==
  [healthy |-> Get(db_status, "status", None) \in {"available", "running"},
   details |-> db_status]

\* the health_status that health_check returns with these checks; its timestamp was
\* read when the coroutine started
health_status(inv, checks) ==
  [domain |-> inv.args.domain, environment |-> inv.args.environment,
   timestamp |-> inv.timestamp, checks |-> checks,
   overall_health |-> IF \A c \in DOMAIN checks : Get(checks[c], "healthy", FALSE)
                        THEN "healthy" ELSE "unhealthy",
   success |-> TRUE]

\* the get_status call that health_check awaits
inner_get_status(inv) == [inv EXCEPT !.op = "get_status"]

\* from the compute check to the await of get_db_status, or to the return
then_database(inv, checks) ==
  LET resolved == resolve(inv.args.domain, inv.args.environment, "database")
      asked == Did(inv, "resolve")
      found == Did(asked, "providers.get")
      provider == Get(registered, resolved.provider, None)
  IN  IF "database" \notin list_resources(inv.args.domain, inv.args.environment)
        THEN Returns(inv, health_status(inv, checks))
      ELSE IF DidRaise(resolved)
        THEN Returns(asked, health_status(inv, checks))
      ELSE IF provider # None /\ "get_db_status" \in AdapterMethods(provider)
        THEN Merge(Did(found, "provider.get_db_status"),
                   [pc |-> "database", checks |-> checks, db_ref |-> resolved.ref])
      ELSE Returns(found, health_status(inv, checks))

\* InfrastructureTools.health_check up to its first await of the adapter
health_check(domain, environment) ==
  /\ Idle
  /\ ninvocations < MaxInvocations
  /\ ninvocations' = ninvocations + 1
  /\ LET k == ninvocations + 1
         inv == Did(Merge(Invocation("health_check",
                                     [domain |-> domain, environment |-> environment,
                                      resource_type |-> "compute"], "start", <<>>),
                          [timestamp |-> isoformat(now)]), "resolve")
         resolved == resolve(domain, environment, "compute")
         found == Did(inv, "providers.get")
         provider == Get(registered, resolved.provider, None)
         missing == AttributeError(provider, "get_status")
     IN  IF DidRaise(resolved)
           THEN /\ invocations' =
                     Put(invocations, k, then_database(inv, [compute |-> unable_to_check]))
                /\ UNCHANGED audit_vars
         ELSE IF provider = None
           THEN /\ invocations' =
                     Put(invocations, k,
                         then_database(found,
                                       [compute |-> compute_check(unavailable(resolved.provider))]))
                /\ UNCHANGED audit_vars
         ELSE IF "get_status" \in AdapterMethods(provider)
           THEN /\ GatewayLogOperation(k, inner_get_status(inv), resolved)
                /\ invocations' =
                     Put(invocations, k,
                         Awaits(Did(found, "log_operation"), "provider.get_status",
                                "compute", resolved))
         ELSE /\ GatewayLogBoth(k, inner_get_status(inv), resolved, missing)
              /\ invocations' =
                   Put(invocations, k,
                       then_database(Did(Did(found, "log_operation"), "log_error"),
                                     [compute |-> compute_check(failure(missing, inv.args))]))
  /\ GuardrailsFrame
  /\ UNCHANGED <<resolver_vars, registered>>

\* the adapter answers the get_status call made for the compute check
HealthComputeReturns(k, reply) ==
  /\ Idle
  /\ k \in DOMAIN invocations
  /\ invocations[k].pc = "compute"
  /\ LET inv == invocations[k]
     IN  IF DidRaise(reply)
           THEN /\ GatewayLogError(k, inner_get_status(inv), reply.raised)
                /\ invocations' =
                     Put(invocations, k,
                         then_database(Did(inv, "log_error"),
                                       [compute |-> compute_check(failure(reply.raised,
                                                                          inv.args))]))
           ELSE /\ invocations' =
                     Put(invocations, k,
                         then_database(inv,
                                       [compute |-> compute_check(served(inner_get_status(inv),
                                                                         reply))]))
                /\ UNCHANGED audit_vars
  /\ GuardrailsFrame
  /\ UNCHANGED <<resolver_vars, ninvocations, registered>>

\* the adapter answers get_db_status: an exception is passed over
HealthDatabaseReturns(k, reply) ==
  /\ Idle
  /\ k \in DOMAIN invocations
  /\ invocations[k].pc = "database"
  /\ LET inv == invocations[k]
         checks == IF DidRaise(reply)
                     THEN inv.checks
                     ELSE Put(inv.checks, "database", database_check(reply))
     IN  invocations' = Put(invocations, k, Returns(inv, health_status(inv, checks)))
  /\ GuardrailsFrame
  /\ UNCHANGED <<resolver_vars, audit_vars, ninvocations, registered>>

(* ------------------------------------------------- resolver: reverse lookup *)

\* the (domain, env, resource_type) triples that the loops of _build_indices walk
Walked ==
  UNION {UNION {{[domain |-> d, environment |-> e, resource_type |-> t] :
                   t \in DOMAIN domains[d][e]} :
                e \in DOMAIN domains[d]} :
         d \in DOMAIN domains}

ConfigOf(k) == domains[k.domain][k.environment][k.resource_type]

\* key = (config.get('provider'), config['ref'])
index_key(config) == <<Get(config, "provider", None), config.ref>>

\* self.resource_index as _build_indices leaves it: an entry for each walked config
\* that has a 'ref' key.  Of two configs with one key the later in file order would
\* stay; the catalogs loaded here give every key to one config.
resource_index ==
  LET indexed == {k \in Walked : "ref" \in DOMAIN ConfigOf(k)}
  IN  [key \in {index_key(ConfigOf(k)) : k \in indexed} |->
         CHOOSE k \in indexed : index_key(ConfigOf(k)) = key]

\* self.resource_index.get((provider, ref))
resolve_by_ref(provider, ref) ==
  IF <<provider, ref>> \in DOMAIN resource_index
    THEN resource_index[<<provider, ref>>]
    ELSE NoResult

\* a caller asks which logical identity a physical reference belongs to
ResolveByRef(provider, ref) ==
  /\ Idle
  /\ returned' = [op |-> "resolve_by_ref", args |-> [provider |-> provider, ref |-> ref],
                  ret |-> resolve_by_ref(provider, ref)]
  /\ UNCHANGED <<policies, pending_confirmations, now, calls, history, nissued,
                 nvalidates, ticks, resolver_vars, audit_vars, gateway_vars>>

\* the physical references a caller may look up
LookupRefs == {"vm-1", "vm-2", "galileo-notify-dev", "galileo-notify-db", "no-such-ref"}

(* -------------------------------------------------- resolver: policy helpers *)

\* a policies.yml with operating modes, environment verb lists and an operation-level
\* fragment: a YAML scalar 'all' loads as a str, a YAML sequence as a list
ModePolicies ==
  [environments |->
     [dev     |-> [risk_level |-> "low", confirmations_required |-> TRUE],
      staging |-> [risk_level |-> "medium", allowed_operations |-> Str("all")],
      prod    |-> [risk_level |-> "high", confirmations_required |-> TRUE,
                   confirmation_operations |-> <<"scale">>,
                   allowed_operations |-> List(<<"status", "scale">>)]],
   operations |-> [restart |-> [confirmations_required |-> TRUE]],
   operation_modes |->
     [operator |-> [allowed_verbs |-> Str("all"), denied_verbs |-> <<"deploy">>],
      viewer   |-> [allowed_verbs |-> List(<<"status", "scale">>),
                    denied_verbs |-> <<"scale">>],
      auditor  |-> [allowed_verbs |-> List(<<"status">>)]]]

\* operation in value, for a value that is the str 'all' or a list
Contains(value, operation) ==
  IF "list" \in DOMAIN value THEN operation \in Range(value.list) ELSE FALSE

\* DomainResolver.get_policy_for_operation: {**operation_policies, **env_policies}
get_policy_for_operation(environment, operation) ==
  IF policies = EmptyDict
    THEN EmptyDict
    ELSE Merge(Get(Get(policies, "operations", EmptyDict), operation, EmptyDict),
               EnvConfig(environment))

\* DomainResolver.requires_confirmation
requires_confirmation(environment, operation) ==
  LET policy == get_policy_for_operation(environment, operation)
  IN  IF Truthy(policy, "confirmations_required")
        THEN LET confirmation_ops == Get(policy, "confirmation_operations", <<>>)
             IN  operation \in Range(confirmation_ops) \/ confirmation_ops = <<>>
        ELSE FALSE

\* mutant: the environment's allowed_operations list is not consulted
is_operation_allowed_by_mode_only(environment, operation, mode) ==
  IF policies = EmptyDict THEN TRUE
  ELSE LET mode_config == Get(Get(policies, "operation_modes", EmptyDict), mode, EmptyDict)
           allowed_verbs == Get(mode_config, "allowed_verbs", List(<<>>))
           denied_verbs == Get(mode_config, "denied_verbs", <<>>)
       IN  IF operation \in Range(denied_verbs) THEN FALSE
           ELSE allowed_verbs = Str("all") \/ Contains(allowed_verbs, operation)

\* DomainResolver.is_operation_allowed
is_operation_allowed(environment, operation, mode) ==
  IF policies = EmptyDict THEN TRUE
  ELSE LET mode_config == Get(Get(policies, "operation_modes", EmptyDict), mode, EmptyDict)
           allowed_verbs == Get(mode_config, "allowed_verbs", List(<<>>))
           denied_verbs == Get(mode_config, "denied_verbs", <<>>)
       IN  IF operation \in Range(denied_verbs) THEN FALSE
           ELSE IF allowed_verbs = Str("all") \/ Contains(allowed_verbs, operation)
             THEN LET env_allowed == Get(EnvConfig(environment), "allowed_operations",
                                         Str("all"))
                  IN  IF env_allowed = Str("all") THEN TRUE
                      ELSE Contains(env_allowed, operation)
           ELSE FALSE

\* a caller asks the resolver's policy helpers
IsOperationAllowed(environment, operation, mode) ==
  /\ Idle
  /\ returned' = [op |-> "is_operation_allowed",
                  args |-> [environment |-> environment, operation |-> operation,
                            mode |-> mode],
                  ret |-> is_operation_allowed(environment, operation, mode)]
  /\ UNCHANGED <<policies, pending_confirmations, now, calls, history, nissued,
                 nvalidates, ticks, resolver_vars, audit_vars, gateway_vars>>

RequiresConfirmation(environment, operation) ==
  /\ Idle
  /\ returned' = [op |-> "requires_confirmation",
                  args |-> [environment |-> environment, operation |-> operation],
                  ret |-> requires_confirmation(environment, operation)]
  /\ UNCHANGED <<policies, pending_confirmations, now, calls, history, nissued,
                 nvalidates, ticks, resolver_vars, audit_vars, gateway_vars>>

\* what the callers of the policy helpers pass
PolicyEnvironments == Environments \cup {"qa"}
Operations == {"status", "scale", "restart", "deploy"}
Modes == {"operator", "viewer", "auditor", "no_such_mode"}

(* ------------------------------------------------------------ specification *)

\* the guardrails alone: nothing else of the platform moves
Apart == UNCHANGED <<resolver_vars, audit_vars, gateway_vars>>

ScaleStep ==
  \E d \in Domains, e \in Environments, c \in Capacities : check_scale_operation(d, e, c) /\ Apart
RestartStep == \E d \in Domains, e \in Environments : check_restart_operation(d, e) /\ Apart
DeployStep ==
  \E d \in Domains, e \in Environments, v \in Versions : check_deploy_operation(d, e, v) /\ Apart
IsolateStep == \E h \in Hostnames : check_isolation_operation(h) /\ Apart
ValidateCallStep == \E t \in DOMAIN history \cup {UnknownToken} : ValidateCall(t) /\ Apart
ValidateStep == \E r \in DOMAIN calls : validate_confirmation(r) /\ Apart
TakeResultStep == TakeResult /\ Apart
TickStep == \E d \in TickAmounts : Tick(d) /\ Apart

Next ==
  \/ ScaleStep
  \/ RestartStep
  \/ DeployStep
  \/ IsolateStep
  \/ ValidateCallStep
  \/ ValidateStep
  \/ TakeResultStep
  \/ TickStep

Spec == Init /\ [][Next]_vars

\* the guardrails under the policy document that names no verbs
SpecConfirmAll == InitConfirmAll /\ [][Next]_vars

\* the resolver alone, over the catalogs and provider sections it may load
ResolverInit ==
  /\ policies = NoPolicies
  /\ GuardrailsConstructed
  /\ domains \in Catalogs
  /\ providers \in ProviderDocs
  /\ AuditConstructed
  /\ GatewayConstructed
  /\ NewSessionFile
  /\ ConstructedByMain

ResolveStep ==
  \E d \in ResolveDomains, e \in Environments, t \in ResourceTypes : Resolve(d, e, t)

ResolveByRefStep == \E p \in CatalogProviders, r \in LookupRefs : ResolveByRef(p, r)

ResolverNext ==
  \/ ResolveStep
  \/ ResolveByRefStep
  \/ TakeResultStep

ResolverSpec == ResolverInit /\ [][ResolverNext]_vars

\* the guardrails asked about an environment that no policy document lists, while
\* isolation checks fill the table
UnlistedEnvironments == {"qa"}

UnlistedInit ==
  /\ policies \in {NoPolicies, ProductionPolicies, ConfirmAllPolicies}
  /\ Constructed
  /\ NewSessionFile
  /\ ConstructedByMain

UnlistedScaleStep ==
  \E d \in Domains, e \in UnlistedEnvironments, c \in Capacities :
     check_scale_operation(d, e, c) /\ Apart
UnlistedRestartStep ==
  \E d \in Domains, e \in UnlistedEnvironments : check_restart_operation(d, e) /\ Apart
UnlistedDeployStep ==
  \E d \in Domains, e \in UnlistedEnvironments, v \in Versions :
     check_deploy_operation(d, e, v) /\ Apart

UnlistedNext ==
  \/ UnlistedScaleStep
  \/ UnlistedRestartStep
  \/ UnlistedDeployStep
  \/ IsolateStep
  \/ TakeResultStep
  \/ TickStep

UnlistedSpec == UnlistedInit /\ [][UnlistedNext]_vars

\* the resolver's policy helpers, over the policy documents it may load
PolicyInit ==
  /\ policies \in {NoPolicies, ProductionPolicies, ConfirmAllPolicies, ModePolicies}
  /\ Constructed
  /\ NewSessionFile
  /\ ConstructedByMain

IsOperationAllowedStep ==
  \E e \in PolicyEnvironments, o \in Operations, m \in Modes : IsOperationAllowed(e, o, m)
RequiresConfirmationStep ==
  \E e \in PolicyEnvironments, o \in Operations : RequiresConfirmation(e, o)

PolicyNext ==
  \/ IsOperationAllowedStep
  \/ RequiresConfirmationStep
  \/ TakeResultStep

PolicySpec == PolicyInit /\ [][PolicyNext]_vars

\* the audit logger alone, called from inside or from outside a running event loop
AuditInit ==
  /\ policies = NoPolicies
  /\ pending_confirmations = EmptyDict
  /\ now = 216000
  /\ calls = <<>>
  /\ returned = Nothing
  /\ history = EmptyDict
  /\ nissued = 0
  /\ nvalidates = 0
  /\ ticks = 0
  /\ ResolverLoaded
  /\ \E file \in SessionFiles :
        /\ audit_file = file.lines
        /\ written_by = file.writers
  /\ loop_running \in BOOLEAN
  /\ tasks = <<>>
  /\ GatewayConstructed
  /\ ConstructedByMain

LogOperationStep ==
  \E o \in AuditOperations, k \in AuditParameters : log_operation(o, k)
LogSuccessStep ==
  \E r \in Results, k \in AuditParameters : log_success("scale_service", r, k)
LogErrorStep ==
  \E o \in AuditOperations, e \in ErrorTexts, k \in AuditParameters : log_error(o, e, k)
LogSecurityEventStep ==
  \E e \in SecurityEvents, v \in Severities, d \in SecurityDetails :
     log_security_event(e, v, d)
RecentOperationsStep == \E m \in Minutes, f \in Filters : get_recent_operations(m, f)
ComplianceReportStep == generate_compliance_report(0, now)
RunAlertStep == \E outcome \in {"done", "failed"} : RunAlert(outcome)

AuditNext ==
  \/ LogOperationStep
  \/ LogSuccessStep
  \/ LogErrorStep
  \/ LogSecurityEventStep
  \/ RecentOperationsStep
  \/ ComplianceReportStep
  \/ RunAlertStep
  \/ TakeResultStep

AuditSpec == AuditInit /\ [][AuditNext]_vars

\* the scan of a session file that was written over time and holds lines that are no
\* entries
ScanInit ==
  /\ policies = NoPolicies
  /\ pending_confirmations = EmptyDict
  /\ now = 216000
  /\ calls = <<>>
  /\ returned = Nothing
  /\ history = EmptyDict
  /\ nissued = 0
  /\ nvalidates = 0
  /\ ticks = 0
  /\ ResolverLoaded
  /\ AuditConstructed
  /\ GatewayConstructed
  /\ ConstructedByMain

LogQuietEventStep ==
  \E e \in SecurityEvents, d \in SecurityDetails : log_security_event(e, "low", d)
CorruptStep == \E line \in MalformedLines, newline \in BOOLEAN : Corrupt(line, newline)

ScanNext ==
  \/ LogOperationStep
  \/ LogQuietEventStep
  \/ CorruptStep
  \/ RecentOperationsStep
  \/ TakeResultStep
  \/ TickStep

ScanSpec == ScanInit /\ [][ScanNext]_vars

\* the gateway with its guardrails, resolver and audit logger
GetStatusStep ==
  \E d \in Domains, e \in Environments, t \in ResourceTypes : get_status(d, e, t)
ScaleServiceStep ==
  \E d \in Domains, e \in Environments, c \in GatewayCapacities :
     scale_service(d, e, c, "compute")
RestartServiceStep == \E d \in Domains, e \in Environments : restart_service(d, e, "compute")
DeployServiceStep ==
  \E d \in Domains, e \in Environments, v \in Versions : deploy_service(d, e, v)
CheckedStep == \E k \in DOMAIN invocations : Checked(k)
StatusReturnsStep == \E k \in DOMAIN invocations, reply \in StatusReplies : StatusReturns(k, reply)
OperationReturnsStep ==
  \E k \in DOMAIN invocations, reply \in StatusReplies \cup OperationReplies :
     OperationReturns(k, reply)
FinishStep == \E k \in DOMAIN invocations : Finish(k)

GatewayNext ==
  \/ GetStatusStep
  \/ ScaleServiceStep
  \/ RestartServiceStep
  \/ DeployServiceStep
  \/ CheckedStep
  \/ StatusReturnsStep
  \/ OperationReturnsStep
  \/ FinishStep

\* the gateway of a platform that runs under the production policy document
GatewayInit ==
  /\ policies = ProductionPolicies
  /\ Constructed
  /\ NewSessionFile

GatewaySpec == GatewayInit /\ [][GatewayNext]_vars

\* health checks alone, on the sample configuration
HealthInit ==
  /\ policies = NoPolicies
  /\ Constructed

HealthCheckStep == \E d \in ResolveDomains, e \in Environments : health_check(d, e)
HealthComputeReturnsStep ==
  \E k \in DOMAIN invocations, reply \in HealthReplies : HealthComputeReturns(k, reply)
HealthDatabaseReturnsStep ==
  \E k \in DOMAIN invocations, reply \in DatabaseReplies : HealthDatabaseReturns(k, reply)

HealthNext ==
  \/ HealthCheckStep
  \/ HealthComputeReturnsStep
  \/ HealthDatabaseReturnsStep
  \/ FinishStep

HealthSpec == HealthInit /\ [][HealthNext]_vars

(* ------------------------------------------------------------------- claims *)

Checks == {"check_scale_operation", "check_restart_operation",
           "check_deploy_operation", "check_isolation_operation"}

\* a check has just returned
CheckReturned == returned.op \in Checks

\* validate_confirmation has just returned
ValidateReturned == returned.op = "validate_confirmation"

\* the three shapes of a verdict
IsAllowed(v) == DOMAIN v = {"allowed"} /\ v.allowed = TRUE

IsHardDeny(v) == DOMAIN v = {"allowed", "reason"} /\ v.allowed = FALSE

IsConfirmationRequired(v) ==
  /\ DOMAIN v = {"allowed", "requires_confirmation", "token", "reason"}
  /\ v.allowed = FALSE
  /\ v.requires_confirmation = TRUE

\* C1: a token is single-use.  The first validate_confirmation call since a check
\* issued the token, made no later than 300 seconds after the issue, returns true
\* and leaves the token out of the table; every validate_confirmation call that
\* comes after another one, with no check issuing the token value in between,
\* returns false.
C1_SingleUse ==
  ValidateReturned =>
    /\ (returned.seen.life = "live" /\ now <= returned.seen.issued_at + ExpirySeconds)
         => (returned.ret = TRUE /\ returned.args.token \notin DOMAIN pending_confirmations)
    /\ returned.seen.life \in {"redeemed", "expired"} => returned.ret = FALSE

\* a second validate_confirmation of a token that the first one redeemed
C1_Witness ==
  /\ ValidateReturned
  /\ returned.seen.life = "redeemed"
  /\ returned.ret = FALSE

\* C2 as stated: a validate_confirmation call made later than issue time + 300
\* seconds returns false and deletes the entry, and once a validate call has found a
\* token expired no later validate call of that token returns true.
C2_ExpiredForGood ==
  ValidateReturned =>
    /\ (returned.seen.life = "live" /\ now > returned.seen.issued_at + ExpirySeconds)
         => (returned.ret = FALSE /\ returned.args.token \notin DOMAIN pending_confirmations)
    /\ returned.seen.expired_ever => returned.ret = FALSE

\* C2, amended: a token expires exactly 300 seconds after the most recent check that
\* issued its value.  A first validate_confirmation call made no later than that
\* returns true; one made later returns false and deletes the entry; and after a
\* call found the token expired, every validate call returns false until a check
\* issues the same token value again.
C2_ExpiresAfter300Seconds ==
  ValidateReturned =>
    /\ (returned.seen.life = "live" /\ now > returned.seen.issued_at + ExpirySeconds)
         => (returned.ret = FALSE /\ returned.args.token \notin DOMAIN pending_confirmations)
    /\ (returned.seen.life = "live" /\ now = returned.seen.issued_at + ExpirySeconds)
         => returned.ret = TRUE
    /\ returned.seen.life = "expired" => returned.ret = FALSE

\* a first validate_confirmation that came 301 seconds after the issue
C2_Witness ==
  /\ ValidateReturned
  /\ returned.seen.life = "live"
  /\ now = returned.seen.issued_at + ExpirySeconds + 1
  /\ returned.ret = FALSE
  /\ returned.args.token \in DOMAIN returned.before

\* C3: a check that issues a token never returns a token value that is already
\* pending: the verdict adds exactly one entry to the table and leaves every entry
\* that was there as it was.
C3_CollisionFree ==
  (CheckReturned /\ IsConfirmationRequired(returned.verdict)) =>
    /\ returned.verdict.token \notin DOMAIN returned.before
    /\ Cardinality(DOMAIN pending_confirmations) = Cardinality(DOMAIN returned.before) + 1
    /\ \A t \in DOMAIN returned.before :
         t \in DOMAIN pending_confirmations /\ pending_confirmations[t] = returned.before[t]

\* C4: of the validate_confirmation calls that race on one pending, unexpired token,
\* at most one returns true: a call that runs after a rival of the race returned
\* true returns false, finding the token gone from the table.
C4_RaceHasOneWinner ==
  (ValidateReturned /\ TRUE \in returned.rival_rets) =>
    /\ returned.ret = FALSE
    /\ returned.args.token \notin DOMAIN returned.before

\* the loser of a race returns
C4_Witness ==
  /\ ValidateReturned
  /\ returned.raced
  /\ TRUE \in returned.rival_rets
  /\ returned.ret = FALSE

\* C5: a verdict has exactly one of three shapes: allowed, with no token and no
\* reason; a hard deny, with a reason and no token; or confirmation-required, with
\* a reason and a token that is in the table when the check returns.  An allowed
\* verdict leaves the table as it was.
C5_VerdictShapes ==
  CheckReturned =>
    LET v == returned.verdict
    IN  /\ \/ IsAllowed(v)
           \/ IsHardDeny(v)
           \/ IsConfirmationRequired(v) /\ v.token \in DOMAIN pending_confirmations
        /\ v.allowed = TRUE =>
             /\ "token" \notin DOMAIN v
             /\ pending_confirmations = returned.before

\* a confirmation-required verdict whose token is in the table
C5_Witness ==
  /\ CheckReturned
  /\ IsConfirmationRequired(returned.verdict)
  /\ returned.verdict.token \in DOMAIN pending_confirmations
  /\ returned.before # pending_confirmations

\* the policy document as C6 reads it
Environment(e) ==
  IF "environments" \in DOMAIN policies /\ e \in DOMAIN policies.environments
    THEN policies.environments[e] ELSE EmptyDict

Scaling ==
  IF "guardrails" \in DOMAIN policies /\ "scaling" \in DOMAIN policies.guardrails
    THEN policies.guardrails.scaling ELSE EmptyDict

\* the environment's max_scale_size if set, else the guardrail default maximum
maxSize(e) ==
  IF "max_scale_size" \in DOMAIN Environment(e) THEN Environment(e).max_scale_size
  ELSE IF "max_instances" \in DOMAIN Scaling /\ "default" \in DOMAIN Scaling.max_instances
         THEN Scaling.max_instances.default
         ELSE 100

\* the guardrail per-environment min_instances value if set, else 1
minSize(e) ==
  IF "min_instances" \in DOMAIN Scaling /\ e \in DOMAIN Scaling.min_instances
    THEN Scaling.min_instances[e] ELSE 1

\* the environment asks for confirmations and lists the verb
ConfirmationListed(e, verb) ==
  /\ "confirmations_required" \in DOMAIN Environment(e)
  /\ Environment(e).confirmations_required = TRUE
  /\ "confirmation_operations" \in DOMAIN Environment(e)
  /\ \E i \in DOMAIN Environment(e).confirmation_operations :
        Environment(e).confirmation_operations[i] = verb

\* C6: check_scale_operation denies a target above maxSize, else denies a target
\* below minSize, else requires confirmation where the environment lists 'scale'
\* for confirmation, else allows; a denial's reason names the bound that was
\* violated, its value and the target.
C6_ScaleDecision ==
  returned.op = "check_scale_operation" =>
    LET e == returned.args.environment
        n == returned.args.target_capacity
        v == returned.verdict
    IN  IF n > maxSize(e)
          THEN /\ IsHardDeny(v)
               /\ v.reason.text = "Target capacity exceeds maximum"
               /\ v.reason.bound = maxSize(e)
               /\ v.reason.target_capacity = n
          ELSE IF n < minSize(e)
            THEN /\ IsHardDeny(v)
                 /\ v.reason.text = "Target capacity below minimum"
                 /\ v.reason.bound = minSize(e)
                 /\ v.reason.target_capacity = n
            ELSE IF ConfirmationListed(e, "scale")
              THEN IsConfirmationRequired(v)
              ELSE IsAllowed(v)

\* a target above the environment's own maximum and below the guardrail default
C6_Witness ==
  /\ returned.op = "check_scale_operation"
  /\ "max_scale_size" \in DOMAIN Environment(returned.args.environment)
  /\ returned.args.target_capacity > maxSize(returned.args.environment)
  /\ returned.args.target_capacity < 100
  /\ IsHardDeny(returned.verdict)

\* C7: a check_scale_operation call whose target is outside [minSize, maxSize]
\* returns a hard deny without a token and leaves the table unchanged, also where
\* the environment requires confirmation for 'scale'.
C7_BoundsBeforeConfirmation ==
  (/\ returned.op = "check_scale_operation"
   /\ \/ returned.args.target_capacity > maxSize(returned.args.environment)
      \/ returned.args.target_capacity < minSize(returned.args.environment)) =>
    /\ IsHardDeny(returned.verdict)
    /\ pending_confirmations = returned.before

\* an out-of-bounds target in an environment that lists 'scale' for confirmation
C7_Witness ==
  /\ returned.op = "check_scale_operation"
  /\ returned.args.target_capacity > maxSize(returned.args.environment)
  /\ ConfirmationListed(returned.args.environment, "scale")
  /\ IsHardDeny(returned.verdict)

\* C8: check_isolation_operation returns a confirmation-required verdict, its token
\* recorded as pending for operation 'isolate_endpoint' and the hostname, under
\* every policy document.
C8_IsolationAlwaysConfirmed ==
  returned.op = "check_isolation_operation" =>
    /\ IsConfirmationRequired(returned.verdict)
    /\ returned.verdict.token \in DOMAIN pending_confirmations
    /\ pending_confirmations[returned.verdict.token].operation = "isolate_endpoint"
    /\ pending_confirmations[returned.verdict.token].hostname = returned.args.hostname

\* an isolation check under the empty policy document
C8_Witness ==
  /\ returned.op = "check_isolation_operation"
  /\ policies = NoPolicies
  /\ IsConfirmationRequired(returned.verdict)

\* the days of a week, as datetime.weekday() numbers them
DayNumber(day) ==
  CASE day = "Monday" -> 0 [] day = "Tuesday" -> 1 [] day = "Wednesday" -> 2
    [] day = "Thursday" -> 3 [] day = "Friday" -> 4 [] day = "Saturday" -> 5
    [] day = "Sunday" -> 6

\* second of the week at which a window boundary falls
SecondOfWeek(at) == DayNumber(at.day) * 86400 + at.hour * 3600

\* time t falls inside the weekly window, which may run over the end of the week
InsideWindow(window, t) ==
  LET s == SecondOfWeek(window.start)
      e == SecondOfWeek(window.end)
      p == t % (7 * 86400)
  IN  IF s <= e THEN s <= p /\ p < e ELSE p >= s \/ p < e

\* a window of the environment's deployment_restrictions contains time t
InsideBlackout(e, t) ==
  /\ "deployment_restrictions" \in DOMAIN Environment(e)
  /\ "blackout_windows" \in DOMAIN Environment(e).deployment_restrictions
  /\ \E i \in DOMAIN Environment(e).deployment_restrictions.blackout_windows :
        InsideWindow(Environment(e).deployment_restrictions.blackout_windows[i], t)

BlackoutDenial == Denied([text |-> "Deployments not allowed during blackout window"])

\* C9: check_deploy_operation denies a deploy for blackout exactly when the current
\* time falls inside a blackout window configured for the environment.
C9_BlackoutWindows ==
  returned.op = "check_deploy_operation" =>
    (returned.verdict = BlackoutDenial <=> InsideBlackout(returned.args.environment, now))

\* C10: a deploy that check_deploy_operation denies for blackout gets a hard deny
\* with no token and the table is left unchanged, also where the environment
\* requires confirmation for 'deploy'.
C10_BlackoutBeforeConfirmation ==
  (/\ returned.op = "check_deploy_operation"
   /\ \/ returned.verdict = BlackoutDenial
      \/ blackout_denied(returned.args.environment, now)) =>
    /\ returned.verdict = BlackoutDenial
    /\ IsHardDeny(returned.verdict)
    /\ pending_confirmations = returned.before

\* a blackout denial in an environment that lists 'deploy' for confirmation
C10_Witness ==
  /\ returned.op = "check_deploy_operation"
  /\ returned.verdict = BlackoutDenial
  /\ ConfirmationListed(returned.args.environment, "deploy")

\* the environment asks for confirmations and lists no verb at all
ConfirmsEverything(e) ==
  /\ "confirmations_required" \in DOMAIN Environment(e)
  /\ Environment(e).confirmations_required = TRUE
  /\ \/ "confirmation_operations" \notin DOMAIN Environment(e)
     \/ Environment(e).confirmation_operations = <<>>

\* C11: in an environment with confirmations_required set and an empty or missing
\* confirmation_operations list every verb requires confirmation:
\* check_scale_operation with a target inside the bounds, check_restart_operation
\* and check_deploy_operation outside a blackout window each return a
\* confirmation-required verdict whose token is pending.
C11_EmptyListConfirmsAll ==
  (/\ returned.op \in {"check_scale_operation", "check_restart_operation",
                       "check_deploy_operation"}
   /\ ConfirmsEverything(returned.args.environment)
   /\ returned.op = "check_scale_operation" =>
        /\ returned.args.target_capacity <= maxSize(returned.args.environment)
        /\ returned.args.target_capacity >= minSize(returned.args.environment)
   /\ returned.op = "check_deploy_operation" =>
        ~InsideBlackout(returned.args.environment, now)) =>
    /\ IsConfirmationRequired(returned.verdict)
    /\ returned.verdict.token \in DOMAIN pending_confirmations

\* the adapter calls that change a service
ChangingCalls == {"provider.scale", "provider.restart", "provider.deploy"}

Events(inv) == {inv.trace[i] : i \in DOMAIN inv.trace}

HasVerdict(inv) == "check" \in DOMAIN inv

\* the audit lines that invocation k wrote
LinesOf(k) == {i \in DOMAIN audit_file : written_by[i].by = k}

\* C12: the gateway calls the guardrails first.  A scale_service, restart_service or
\* deploy_service invocation has called the adapter's scale, restart or deploy only
\* after its own guardrail check returned allowed = true; when the check returned a
\* hard deny or a confirmation-required verdict the invocation has returned the
\* verdict's reason and token, and has done no resolve, no audit append and no
\* provider call.
C12_GuardrailsFirst ==
  \A k \in DOMAIN invocations :
     LET inv == invocations[k]
     IN  inv.op \in Guarded =>
           /\ inv.trace[1] = "check"
           /\ Events(inv) \cap ChangingCalls # {} => HasVerdict(inv) /\ inv.check.allowed
           /\ (HasVerdict(inv) /\ ~inv.check.allowed) =>
                /\ inv.pc = "returned"
                /\ inv.result.success = FALSE
                /\ inv.result.error = inv.check.reason
                /\ inv.result.confirmation_token = Get(inv.check, "token", None)
                /\ inv.trace = <<"check">>
                /\ LinesOf(k) = {}

\* one invocation was answered with a verdict that carries a token while another,
\* whose check allowed it, waits for the adapter's answer
C12_Witness ==
  \E k, l \in DOMAIN invocations :
     /\ invocations[k].op \in Guarded
     /\ invocations[k].pc = "returned"
     /\ HasVerdict(invocations[k])
     /\ ~invocations[k].check.allowed
     /\ invocations[k].result.confirmation_token # None
     /\ invocations[l].op \in Guarded
     /\ invocations[l].pc = "provider"
     /\ Events(invocations[l]) \cap ChangingCalls # {}

\* C13: a gated operation can be completed by confirming it.  A caller who was
\* answered with a confirmation-required verdict and repeats the same scale_service,
\* restart_service or deploy_service request while the token it was given is pending
\* and not expired has the operation allowed: it is not answered with another
\* confirmation-required verdict.
C13_ConfirmedRequestIsAllowed ==
  \A k \in DOMAIN invocations :
     LET inv == invocations[k]
     IN  (inv.op \in Guarded /\ inv.held # {} /\ HasVerdict(inv)) =>
           /\ inv.check.allowed
           /\ ~Get(inv.check, "requires_confirmation", FALSE)

\* C14: all failures are logged before they are returned.  Every get_status,
\* scale_service, restart_service or deploy_service invocation that has returned a
\* result with success = false has appended a 'failed' audit entry of its operation.
C14_FailuresAreLogged ==
  \A k \in DOMAIN invocations :
     LET inv == invocations[k]
     IN  (inv.pc = "returned" /\ ~inv.result.success) =>
           \E i \in LinesOf(k) :
              /\ audit_file[i].json.status = "failed"
              /\ audit_file[i].json.operation = inv.op

\* C15: the audit entries of one operation are ordered initiated, then result.  Every
\* 'success' or 'failed' line that a gateway invocation wrote comes after an
\* 'initiated' line of the same invocation.
C15_InitiatedBeforeResult ==
  \A i \in DOMAIN audit_file :
     (written_by[i].by # 0 /\ audit_file[i].json.status \in {"success", "failed"}) =>
        \E j \in 1..(i - 1) :
           /\ written_by[j].by = written_by[i].by
           /\ audit_file[j].json.status = "initiated"

\* an invocation wrote its 'failed' line after another invocation wrote a line
\* between it and its 'initiated' line
C15_Witness ==
  \E j, m, i \in DOMAIN audit_file :
     /\ j < m /\ m < i
     /\ written_by[j].by # 0
     /\ written_by[i].by = written_by[j].by
     /\ written_by[m].by \notin {0, written_by[j].by}
     /\ audit_file[j].json.status = "initiated"
     /\ audit_file[i].json.status = "failed"

LogCalls == {"log_operation", "log_success", "log_error", "log_security_event"}

ReadCalls == {"get_recent_operations", "generate_compliance_report"}

IsPrefix(a, b) == Len(a) <= Len(b) /\ SubSeq(b, 1, Len(a)) = a

\* C16: the session audit log is append-only.  The file a log_operation,
\* log_success, log_error or log_security_event call leaves is the file it was
\* called on with exactly one line added at the end; get_recent_operations and
\* generate_compliance_report leave the file as it was.
C16_AppendOnly ==
  /\ returned.op \in LogCalls =>
       /\ Len(audit_file) = Len(returned.before) + 1
       /\ IsPrefix(returned.before, audit_file)
  /\ returned.op \in ReadCalls => audit_file = returned.before

\* a log call on a file that holds two different lines
C16_Witness ==
  /\ returned.op = "log_error"
  /\ Len(returned.before) = 2
  /\ Len(audit_file) = 3
  /\ audit_file[1] # audit_file[2]

\* the call is one that dispatches an alert
DispatchesAlert ==
  \/ /\ returned.op = "log_error"
     /\ returned.args.operation \in {"isolate_endpoint", "failover", "deploy"}
  \/ /\ returned.op = "log_security_event"
     /\ returned.args.severity \in {"critical", "high"}

\* C17: alert dispatch never fails the logging call.  log_error for a critical
\* operation and log_security_event with severity critical or high append their
\* entry and return normally, also when no event loop is running.
C17_AlertNeverFailsLogCall ==
  DispatchesAlert =>
    /\ Len(audit_file) = Len(returned.before) + 1
    /\ returned.raised = None

AllowListed == {"success", "status", "count", "name", "domain", "environment"}

\* the summary in the entry that log_success has just written
WrittenSummary == audit_file[Len(audit_file)].json.result_summary

\* C18: the result summary that log_success writes for a result holds exactly the
\* allow-listed fields that are in the result, each with the result's value, and
\* nothing else of the result; results that differ only outside the allow-list get
\* the same summary; no result at all gets an empty summary.
C18_SummaryIsAllowListed ==
  /\ (returned.op = "log_success" /\ "dict" \in DOMAIN returned.args.result) =>
       LET result == returned.args.result.dict
       IN  /\ DOMAIN WrittenSummary = DOMAIN result \cap AllowListed
           /\ \A f \in DOMAIN WrittenSummary : WrittenSummary[f] = result[f]
           /\ \A other \in ResultDicts :
                (/\ DOMAIN other \cap AllowListed = DOMAIN result \cap AllowListed
                 /\ \A f \in DOMAIN result \cap AllowListed : other[f] = result[f])
                  => _summarize_result(Dict(other)) = WrittenSummary
  /\ (returned.op = "log_success" /\ returned.args.result = NoResult) =>
       WrittenSummary = EmptyDict

\* a result with allow-listed fields and a token, of which the summary has no trace
C18_Witness ==
  /\ returned.op = "log_success"
  /\ "dict" \in DOMAIN returned.args.result
  /\ {"success", "status", "token", "details"} \subseteq DOMAIN returned.args.result.dict
  /\ "token" \notin DOMAIN WrittenSummary
  /\ "status" \in DOMAIN WrittenSummary

\* the line is an entry that a log call wrote
IsEntry(line) ==
  /\ "json" \in DOMAIN line
  /\ {"timestamp", "session_id", "user"} \subseteq DOMAIN line.json

\* line i is an entry written within the trailing window and named by the filter
InWindow(i, minutes, operation_filter) ==
  /\ IsEntry(audit_file[i])
  /\ written_by[i].at >= now - minutes * 60
  /\ written_by[i].at <= now
  /\ \/ operation_filter = None
     \/ /\ "operation" \in DOMAIN audit_file[i].json
        /\ audit_file[i].json.operation = operation_filter

\* C19: get_recent_operations(minutes, operation_filter) returns, in write order,
\* exactly the entries of the session log that were written within the trailing
\* window of that many minutes and, with a filter, carry that operation name;
\* malformed lines are passed over, a line that continues a write cut short among
\* them.
C19_RecentOperations ==
  returned.op = "get_recent_operations" =>
    LET kept == {i \in DOMAIN audit_file :
                   InWindow(i, returned.args.minutes, returned.args.operation_filter)}
    IN  /\ Len(returned.ret) = Cardinality(kept)
        /\ \A i \in kept :
             returned.ret[Cardinality({j \in kept : j <= i})] = audit_file[i].json

\* an entry too old for the window, a malformed line and a recent entry: the scan
\* returns the recent entry alone
C19_Witness ==
  /\ returned.op = "get_recent_operations"
  /\ Len(audit_file) = 3
  /\ IsEntry(audit_file[1])
  /\ written_by[1].at < now - returned.args.minutes * 60
  /\ ~IsEntry(audit_file[2])
  /\ IsEntry(audit_file[3])
  /\ returned.ret = <<audit_file[3].json>>

\* resolve has just returned for a triple that the catalog holds
ResolvedFromCatalog ==
  /\ returned.op = "resolve"
  /\ returned.args.domain \in DOMAIN domains
  /\ returned.args.environment \in DOMAIN domains[returned.args.domain]
  /\ returned.args.resource_type
       \in DOMAIN domains[returned.args.domain][returned.args.environment]

\* the catalog entry of the triple that was asked for
CatalogEntry ==
  domains[returned.args.domain][returned.args.environment][returned.args.resource_type]

\* the physical reference of a catalog entry: a scalar for one, the sequence for several
CatalogReference(entry) ==
  IF "refs" \in DOMAIN entry
    THEN IF Len(entry.refs) = 1 THEN Str(entry.refs[1]) ELSE List(entry.refs)
    ELSE Str(entry.ref)

\* the providers.yml key that holds the default of an optional field
DefaultsKey(field) ==
  CASE field = "account" -> "accounts" [] field = "subscription" -> "subscriptions"
    [] field = "project" -> "projects"

\* the provider default of an optional field for a provider and an environment, None
\* where the provider section gives none
ProviderDefault(provider, field, environment) ==
  IF provider \notin DOMAIN providers THEN None
  ELSE IF field = "region"
    THEN IF "default_region" \in DOMAIN providers[provider]
           THEN providers[provider].default_region ELSE None
    ELSE IF /\ DefaultsKey(field) \in DOMAIN providers[provider]
            /\ environment \in DOMAIN providers[provider][DefaultsKey(field)]
           THEN providers[provider][DefaultsKey(field)][environment]
           ELSE None

OptionalFields == {"region", "account", "subscription", "project"}

\* C20: for a (domain, environment, resource_type) of the catalog, resolve returns a
\* ResolvedResource whose provider, kind and physical reference are the catalog
\* entry's (a scalar for one reference, the sequence for several) and whose region,
\* account, subscription and project are the catalog's value where it gives one and
\* else the provider default for the provider and environment.
C20_ResolveMatchesCatalog ==
  ResolvedFromCatalog =>
    /\ ~DidRaise(returned.ret)
    /\ returned.ret.provider = CatalogEntry.provider
    /\ returned.ret.kind = CatalogEntry.kind
    /\ returned.ret.ref = CatalogReference(CatalogEntry)
    /\ \A f \in OptionalFields :
         returned.ret[f] =
           IF f \in DOMAIN CatalogEntry
             THEN CatalogEntry[f]
             ELSE ProviderDefault(CatalogEntry.provider, f, returned.args.environment)

\* an entry with its own region, no account and several references, resolved under
\* a provider section that has a default region and an account for the environment
C20_Witness ==
  /\ ResolvedFromCatalog
  /\ "region" \in DOMAIN CatalogEntry
  /\ "account" \notin DOMAIN CatalogEntry
  /\ "refs" \in DOMAIN CatalogEntry
  /\ Len(CatalogEntry.refs) > 1
  /\ ProviderDefault(CatalogEntry.provider, "region", returned.args.environment)
       \notin {None, CatalogEntry.region}
  /\ ProviderDefault(CatalogEntry.provider, "account", returned.args.environment) # None
  /\ returned.ret.account # None
  /\ returned.ret.region = CatalogEntry.region

\* C21: for every (domain, environment, resource_type) absent from the catalog,
\* resolve fails with a not-found error raised at the first missing level in the
\* order domain, environment, resource type, and the 'Available' list of the error
\* equals the valid keys at that level: all domains, the environments of that domain,
\* the resource types of that domain and environment.
C21_NotFoundNamesValidKeys ==
  returned.op = "resolve" =>
    LET a == returned.args
        ret == returned.ret
        failed(level, asked, keys) ==
          /\ DidRaise(ret)
          /\ ret.raised = "ValueError"
          /\ ret.missing = level
          /\ ret.asked = asked
          /\ ret.available = keys
    IN  IF a.domain \notin DOMAIN domains
          THEN failed("Domain", a.domain, DOMAIN domains)
        ELSE IF a.environment \notin DOMAIN domains[a.domain]
          THEN failed("Environment", a.environment, DOMAIN domains[a.domain])
        ELSE IF a.resource_type \notin DOMAIN domains[a.domain][a.environment]
          THEN failed("Resource type", a.resource_type,
                      DOMAIN domains[a.domain][a.environment])
        ELSE ~(DidRaise(ret) /\ "missing" \in DOMAIN ret)

\* resolve was asked for a resource type that an environment of a catalog with several
\* environments does not have
C21_Witness ==
  /\ returned.op = "resolve"
  /\ DidRaise(returned.ret)
  /\ "missing" \in DOMAIN returned.ret
  /\ returned.ret.missing = "Resource type"
  /\ returned.ret.available = {"compute"}
  /\ Cardinality(DOMAIN domains[returned.args.domain]) > 1

\* the physical references a catalog entry names, under ref and under refs
References(config) ==
  (IF "ref" \in DOMAIN config THEN {config.ref} ELSE {})
    \cup (IF "refs" \in DOMAIN config THEN Range(config.refs) ELSE {})

\* the catalog entries in which the pair (provider, ref) appears
Origins(provider, ref) ==
  {k \in Walked :
     /\ Get(ConfigOf(k), "provider", None) = provider
     /\ ref \in References(ConfigOf(k))}

\* C22: resolve_by_ref is the exact inverse of the catalog.  For every (provider,
\* physical reference) that appears in a catalog entry, each reference of a
\* multi-reference entry included, it returns the (domain, environment, resource_type)
\* of the entry the pair came from; for every other pair it returns not-found.
C22_ReverseLookupInvertsCatalog ==
  returned.op = "resolve_by_ref" =>
    LET origins == Origins(returned.args.provider, returned.args.ref)
    IN  IF origins = {}
          THEN returned.ret = NoResult
          ELSE returned.ret \in origins

\* the verb sets of a mode and the verb list of an environment, read from the document
ModeConfig(m) ==
  IF "operation_modes" \in DOMAIN policies /\ m \in DOMAIN policies.operation_modes
    THEN policies.operation_modes[m]
    ELSE EmptyDict

ModeDenies(m, o) ==
  "denied_verbs" \in DOMAIN ModeConfig(m) /\ \E i \in DOMAIN ModeConfig(m).denied_verbs :
                                                 ModeConfig(m).denied_verbs[i] = o

ModeAllows(m, o) ==
  /\ "allowed_verbs" \in DOMAIN ModeConfig(m)
  /\ \/ ModeConfig(m).allowed_verbs = Str("all")
     \/ /\ "list" \in DOMAIN ModeConfig(m).allowed_verbs
        /\ \E i \in DOMAIN ModeConfig(m).allowed_verbs.list :
              ModeConfig(m).allowed_verbs.list[i] = o

\* an environment without an allowed_operations list has the 'all' sentinel
EnvironmentAllows(e, o) ==
  \/ "allowed_operations" \notin DOMAIN Environment(e)
  \/ Environment(e).allowed_operations = Str("all")
  \/ /\ "list" \in DOMAIN Environment(e).allowed_operations
     /\ \E i \in DOMAIN Environment(e).allowed_operations.list :
           Environment(e).allowed_operations.list[i] = o

BothGatesPass(e, o, m) == ~ModeDenies(m, o) /\ ModeAllows(m, o) /\ EnvironmentAllows(e, o)

\* C23 as stated: is_operation_allowed(environment, operation, mode) returns true
\* exactly when both gates pass: the operation is not in the mode's denied verbs and
\* is allowed by the mode (listed, or the mode allows all verbs), and it is in the
\* environment's allowed-operations list or that list is the 'all' sentinel.
C23_BothGatesDecide ==
  returned.op = "is_operation_allowed" =>
    (returned.ret <=>
       BothGatesPass(returned.args.environment, returned.args.operation, returned.args.mode))

\* C23: is_operation_allowed returns true exactly when no policy document is loaded
\* (it is empty), or both gates pass; an operation listed in both the mode's allowed
\* and denied verbs is denied.
C23_BothGatesDecideOnceLoaded ==
  returned.op = "is_operation_allowed" =>
    /\ returned.ret <=>
         \/ policies = EmptyDict
         \/ BothGatesPass(returned.args.environment, returned.args.operation,
                          returned.args.mode)
    /\ (/\ policies # EmptyDict
        /\ ModeDenies(returned.args.mode, returned.args.operation)
        /\ ModeAllows(returned.args.mode, returned.args.operation)) => ~returned.ret

\* the mode lets the verb pass and the environment's own list decides against it
C23_Witness ==
  /\ returned.op = "is_operation_allowed"
  /\ policies # EmptyDict
  /\ ModeAllows(returned.args.mode, returned.args.operation)
  /\ ~ModeDenies(returned.args.mode, returned.args.operation)
  /\ ~EnvironmentAllows(returned.args.environment, returned.args.operation)
  /\ returned.ret = FALSE

\* the verb a check asks the confirmation decision for
VerbOf(check) ==
  CASE check = "check_scale_operation" -> "scale"
    [] check = "check_restart_operation" -> "restart"
    [] check = "check_deploy_operation" -> "deploy"

\* C24: the resolver's requires_confirmation(environment, operation) and the
\* confirmation decision of the guardrail checks are the same function: for scale,
\* restart and deploy a check that is not denied on other grounds issues a token
\* exactly when requires_confirmation is true.
C24_SameConfirmationDecision ==
  (/\ returned.op \in {"check_scale_operation", "check_restart_operation",
                       "check_deploy_operation"}
   /\ ~IsHardDeny(returned.verdict)) =>
    (IsConfirmationRequired(returned.verdict) <=>
       requires_confirmation(returned.args.environment, VerbOf(returned.op)))

\* every call an invocation makes to its provider adapter
AdapterCalls == ChangingCalls \cup {"provider.get_status"}

\* C25: in scale_service, restart_service and deploy_service the 'initiated' audit
\* entry of an invocation is appended before any call the invocation makes to the
\* provider adapter: the order is guardrail check, resolve, log_operation, provider.
C25_InitiatedBeforeAdapter ==
  \A k \in DOMAIN invocations :
     LET inv == invocations[k]
     IN  inv.op \in Guarded =>
           \A i \in DOMAIN inv.trace :
              inv.trace[i] \in AdapterCalls =>
                /\ \E j \in 1..(i - 1) : inv.trace[j] = "log_operation"
                /\ \E n \in LinesOf(k) : audit_file[n].json.status = "initiated"

\* C26: every operation that succeeded is in the audit trail as a success.  Each
\* get_status, scale_service, restart_service or deploy_service invocation that has
\* returned success = true has appended, after its 'initiated' entry, a 'success'
\* entry of its operation.
C26_SuccessesAreLogged ==
  \A k \in DOMAIN invocations :
     LET inv == invocations[k]
     IN  (inv.pc = "returned" /\ inv.result.success) =>
           \E j, i \in LinesOf(k) :
              /\ j < i
              /\ audit_file[j].json.status = "initiated"
              /\ audit_file[i].json.status = "success"
              /\ audit_file[i].json.operation = inv.op

\* the 'failed' lines that gateway invocations of an operation wrote
FailedLines(op) ==
  {i \in DOMAIN audit_file :
     /\ written_by[i].by # 0
     /\ audit_file[i].json.status = "failed"
     /\ audit_file[i].json.operation = op}

AlertsFor(op) == {n \in DOMAIN tasks : tasks[n].operation = op}

\* C27: a failure of a critical operation raises an operational alert.  For every
\* logged failure of deploy_service an operational alert task was dispatched, and a
\* logged failure of get_status dispatches none.
C27_DeployFailureAlerts ==
  /\ Cardinality(AlertsFor("deploy_service")) >= Cardinality(FailedLines("deploy_service"))
  /\ AlertsFor("get_status") = {}

\* the policy document says nothing about the environment
Unlisted(e) ==
  /\ ~("environments" \in DOMAIN policies /\ e \in DOMAIN policies.environments)
  /\ ~("min_instances" \in DOMAIN Scaling /\ e \in DOMAIN Scaling.min_instances)

DefaultMaximum ==
  IF "max_instances" \in DOMAIN Scaling /\ "default" \in DOMAIN Scaling.max_instances
    THEN Scaling.max_instances.default
    ELSE 100

\* C28: the guardrails fail open for unknown environments.  For an environment with
\* no entry in the policy document check_restart_operation and
\* check_deploy_operation return allowed = true, check_scale_operation returns
\* allowed = true for every target between 1 and the guardrail default maximum (100
\* when none is configured), and none of them issues a token or adds a pending
\* confirmation.
C28_UnlistedEnvironmentFailsOpen ==
  (/\ returned.op \in {"check_scale_operation", "check_restart_operation",
                       "check_deploy_operation"}
   /\ Unlisted(returned.args.environment)) =>
    /\ pending_confirmations = returned.before
    /\ "token" \notin DOMAIN returned.verdict
    /\ returned.op \in {"check_restart_operation", "check_deploy_operation"} =>
         IsAllowed(returned.verdict)
    /\ (/\ returned.op = "check_scale_operation"
        /\ returned.args.target_capacity >= 1
        /\ returned.args.target_capacity <= DefaultMaximum) => IsAllowed(returned.verdict)

\* a scale check of an unlisted environment is allowed under a document that asks
\* for confirmations elsewhere, while the table holds a token
C28_Witness ==
  /\ returned.op = "check_scale_operation"
  /\ Unlisted(returned.args.environment)
  /\ policies # EmptyDict
  /\ returned.args.target_capacity >= 1
  /\ returned.args.target_capacity <= DefaultMaximum
  /\ IsAllowed(returned.verdict)
  /\ pending_confirmations # EmptyDict

\* C29: a pending token leaves the pending-confirmation table only through a
\* validate_confirmation call that names it.  No guardrail check removes or expires
\* an entry, an expired entry stays until it is validated, validate_confirmation(t)
\* leaves the entries of all other tokens unchanged, and a further
\* confirmation-required check leaves every earlier unexpired token redeemable.
C29_OnlyValidateRemoves ==
  /\ CheckReturned =>
       \A t \in DOMAIN returned.before :
          /\ t \in DOMAIN pending_confirmations
          /\ ("token" \notin DOMAIN returned.verdict \/ returned.verdict.token # t) =>
               pending_confirmations[t] = returned.before[t]
          /\ now <= returned.before[t].expires => now <= pending_confirmations[t].expires
  /\ ValidateReturned =>
       /\ DOMAIN pending_confirmations \subseteq DOMAIN returned.before
       /\ \A u \in DOMAIN returned.before \ {returned.args.token} :
             /\ u \in DOMAIN pending_confirmations
             /\ pending_confirmations[u] = returned.before[u]

\* validate_confirmation returned for one token while the table holds the expired
\* entry of another
C29_Witness ==
  /\ ValidateReturned
  /\ \E u \in DOMAIN pending_confirmations :
        /\ u # returned.args.token
        /\ now > pending_confirmations[u].expires
  /\ returned.args.token \in DOMAIN returned.before

\* the compute status was obtained from the adapter and shows no unhealthy instance
Obtained(compute) ==
  /\ "details" \in DOMAIN compute
  /\ compute.details.success
  /\ "instances" \in DOMAIN compute.details
  /\ compute.details.instances.unhealthy = 0

\* C30: health_check reports the compute check as healthy, and overall_health as
\* 'healthy', only when the compute status was obtained and shows zero unhealthy
\* instances; when get_status returns a failure result or resolution fails, the
\* compute check is unhealthy and overall_health is 'unhealthy'.
C30_HealthyOnlyWhenObtained ==
  \A k \in DOMAIN invocations :
     LET inv == invocations[k]
     IN  (inv.op = "health_check" /\ inv.pc = "returned") =>
           LET compute == inv.result.checks.compute
           IN  /\ compute.healthy => Obtained(compute)
               /\ inv.result.overall_health = "healthy" => Obtained(compute)
               /\ ~Obtained(compute) =>
                    (~compute.healthy /\ inv.result.overall_health = "unhealthy")

====
